---- MODULE Spec2Model ----
(***************************************************************************)
(* A model of the buzz-line live-chat relay core: the rate limiter, the    *)
(* token-session validator, the per-socket connection gateway, the fanout  *)
(* registry and the Telegram topic bridge.                                 *)
(*                                                                         *)
(* Time is the value Date.now() would return, in milliseconds (`now`).     *)
(* Strings are atomic in TLA+, so string functions of the source (URL      *)
(* parsing, prefix tests) are modelled by tables over the strings used.    *)
(***************************************************************************)
EXTENDS Integers, Sequences, FiniteSets, TLC

VARIABLES
  now,          \* Date.now(), milliseconds
  rateLimits,   \* Map<string, entry>: a function whose DOMAIN is the keys present
  rlHist,       \* observation of the rate limiter (history, not program state)
  sessions,     \* table token_sessions: jti -> row
  visitors,     \* table visitors: id -> row
  messages,     \* table messages: the rows in id order (id = index)
  settings,     \* table settings: the value of support_presence_state ("" unset)
  sockets,      \* per-connection closure state of wss.on('connection')
  clients,      \* Map<string, Set<WebSocket>>: visitor id -> sockets
  sent,         \* the frames written to each socket, in order
  gateHist,     \* observation of validations and revocations (history)
  botOn,        \* bot && groupId of the Telegram module
  tasks,        \* the sendToTopic invocations, in call order
  tg,           \* the remote platform: live forum topics and calls received
  inbound,      \* the bot.on('message') handler runs, in arrival order
  uploads,      \* the POST upload handler runs, in arrival order
  typingThrottle, \* Map<string, number>: visitor id -> instant of the last signal
  typings,      \* the sendTypingToTopic invocations, in call order
  hook,         \* delivery configuration of the bridge and the updates it took
  widget,       \* the chat widget of one browser page and the sockets it made
  chatHist      \* observation of accepted messages and dropped frames (history)

(***************************************************************************)
(* Program constants of the rate limiter.                                  *)
(***************************************************************************)
RATE_SHORT_MAX == 5
RATE_SHORT_WINDOW == 10000
RATE_MEDIUM_MAX == 60
RATE_MEDIUM_WINDOW == 600000
RATE_DAILY_MAX == 300
RATE_DAILY_WINDOW == 86400000
BURST_COOLDOWN == 60000
BURST_STRIKE_THRESHOLD == 3
MAX_MESSAGE_LENGTH == 2000
AUTH_TIMEOUT_MS == 5000        \* the delay of authTimeout
CLOSE_AUTH_REQUIRED == 4001    \* the close code of every server-side close

(***************************************************************************)
(* Bounds of the model.                                                    *)
(***************************************************************************)
MaxChecks == 10        \* calls of checkRateLimitKeys in one behaviour
MaxSends == 2          \* sendToTopic invocations in one behaviour
MaxTopics == 4         \* forum topics the platform creates in one behaviour
MaxDeletes == 2        \* forum topics deleted on the platform in one behaviour
MaxSessSec == 3        \* last second of the session specification
MaxGateSteps == 3      \* last instant of the gateway specification, in steps
MaxUploads == 2        \* upload requests that reach the image processing
MaxInbound == 2        \* platform messages delivered to the bot
MaxMsgs == 2           \* rows of the messages table in one behaviour
MaxTypings == 3        \* calls of sendTypingToTopic in one behaviour
MaxSent == 4           \* frames written to one socket in one behaviour

(***************************************************************************)
(* Strings of the model and the string functions of the source over them.  *)
(***************************************************************************)
\* new URL(x).host.toLowerCase() for the URLs the model uses
UrlTable ==
  ("https://a.example" :> "a.example") @@
  ("https://A.example/chat" :> "a.example") @@
  ("https://b.example" :> "b.example") @@
  ("https://evil.example" :> "evil.example")

\* null is modelled by the empty string (both are falsy in the source)
originHost(origin) ==
  IF origin \in DOMAIN UrlTable THEN UrlTable[origin] ELSE ""

\* a URL yields its host; anything else goes through the catch branch, which
\* strips scheme and path and lower-cases: a bare lower-case host is returned
toHost(input) ==
  IF input = "" THEN ""
  ELSE IF input \in DOMAIN UrlTable THEN UrlTable[input]
  ELSE input

tokenSiteHost(siteClaim) == toHost(siteClaim)

\* claims.sub.startsWith('anon-') over the subjects of the model
StartsWithAnon(sub) == sub \in {"anon-1", "anon-2"}

\* a decoded, validly signed credential (TokenClaims)
Claims(sub, jti, exp, origin, site, anon) ==
  [sub |-> sub, jti |-> jti, exp |-> exp, origin |-> origin, site |-> site,
   anon |-> anon, name |-> "", email |-> ""]

\* `claims` of a socket before authentication (null)
NoClaims == Claims("", "", 0, "", "", FALSE)

siteFromClaims(claims, fallback) ==
  IF tokenSiteHost(claims.site) # "" THEN tokenSiteHost(claims.site) ELSE fallback

isAnonClaims(claims) == claims.anon \/ StartsWithAnon(claims.sub)

authTypeFromClaims(claims) ==
  IF isAnonClaims(claims) THEN "anonymous" ELSE "authenticated"

\* `site:${site}:user:${sub}` and `site:${site}:ip:${ip}` as tuples
\* variant: every sender is limited by the address key alone
rateLimitKeysIpOnly(claims, ip) ==
  << <<"site", siteFromClaims(claims, "unknown"), "ip",
       IF ip = "" THEN "unknown" ELSE ip>> >>

rateLimitKeys(claims, ip) ==
  LET site == siteFromClaims(claims, "unknown")
      cleanIp == IF ip = "" THEN "unknown" ELSE ip
  IN IF isAnonClaims(claims)
     THEN << <<"site", site, "ip", cleanIp>> >>
     ELSE << <<"site", site, "user", IF claims.sub = "" THEN "unknown" ELSE claims.sub>>,
             <<"site", site, "ip", cleanIp>> >>

(***************************************************************************)
(* Rate limiter.                                                           *)
(***************************************************************************)
NewRateEntry ==
  [short |-> <<>>, medium |-> <<>>, daily |-> <<>>, burstStrikes |-> 0,
   blockedUntil |-> 0]

getRateEntry(rl, key) ==
  IF key \in DOMAIN rl THEN rl ELSE (key :> NewRateEntry) @@ rl

\* arr.filter((t) => now - t < window)
FilterWindow(arr, t, window) == SelectSeq(arr, LAMBDA x : t - x < window)

pruneEntry(entry, t) ==
  [entry EXCEPT !.short = FilterWindow(@, t, RATE_SHORT_WINDOW),
                !.medium = FilterWindow(@, t, RATE_MEDIUM_WINDOW),
                !.daily = FilterWindow(@, t, RATE_DAILY_WINDOW)]

\* entry.blockedUntil > now
isBlocked(entry, t) == entry.blockedUntil > t

\* variant: the capacity test off by one
shortFullOffByOne(entry) == Len(entry.short) > RATE_SHORT_MAX

\* entry.short.length >= RATE_SHORT_MAX
shortFull(entry) == Len(entry.short) >= RATE_SHORT_MAX

\* variant: the block lasts one short window instead of the cooldown
burstStrikeShortBlock(entry, t) ==
  IF entry.burstStrikes + 1 >= BURST_STRIKE_THRESHOLD
  THEN [entry EXCEPT !.blockedUntil = t + RATE_SHORT_WINDOW, !.burstStrikes = 0]
  ELSE [entry EXCEPT !.burstStrikes = @ + 1]

\* the body of the short-window branch: count a strike, block at the threshold
burstStrike(entry, t) ==
  IF entry.burstStrikes + 1 >= BURST_STRIKE_THRESHOLD
  THEN [entry EXCEPT !.blockedUntil = t + BURST_COOLDOWN, !.burstStrikes = 0]
  ELSE [entry EXCEPT !.burstStrikes = @ + 1]

\* the three pushes of the second loop
recordEvent(entry, t) ==
  [entry EXCEPT !.short = Append(@, t), !.medium = Append(@, t),
                !.daily = Append(@, t)]

\* variant: one loop that records each key as soon as that key has passed
RECURSIVE rateCheckLoopEager(_, _, _, _)
rateCheckLoopEager(rl, keys, i, t) ==
  IF i > Len(keys) THEN [rl |-> rl, ok |-> TRUE, why |-> "pass", at |-> 0]
  ELSE LET key == keys[i]
           entry == pruneEntry(rl[key], t)
           rl1 == [rl EXCEPT ![key] = entry]
       IN IF isBlocked(entry, t)
          THEN [rl |-> rl1, ok |-> FALSE, why |-> "blocked", at |-> i]
          ELSE IF shortFull(entry)
          THEN [rl |-> [rl EXCEPT ![key] = burstStrike(entry, t)],
                ok |-> FALSE, why |-> "short", at |-> i]
          ELSE rateCheckLoopEager([rl EXCEPT ![key] = recordEvent(entry, t)],
                                  keys, i + 1, t)

\* variant: the loop looks at the block and the short window only
RECURSIVE rateCheckLoopShortOnly(_, _, _, _)
rateCheckLoopShortOnly(rl, keys, i, t) ==
  IF i > Len(keys) THEN [rl |-> rl, ok |-> TRUE, why |-> "pass", at |-> 0]
  ELSE LET key == keys[i]
           entry == pruneEntry(rl[key], t)
           rl1 == [rl EXCEPT ![key] = entry]
       IN IF isBlocked(entry, t)
          THEN [rl |-> rl1, ok |-> FALSE, why |-> "blocked", at |-> i]
          ELSE IF shortFull(entry)
          THEN [rl |-> [rl EXCEPT ![key] = burstStrike(entry, t)],
                ok |-> FALSE, why |-> "short", at |-> i]
          ELSE rateCheckLoopShortOnly(rl1, keys, i + 1, t)

\* the first loop of checkRateLimitKeys from index i: the table after the
\* loop's mutations, whether every key passed, and where and why it stopped
RECURSIVE rateCheckLoop(_, _, _, _)
rateCheckLoop(rl, keys, i, t) ==
  IF i > Len(keys) THEN [rl |-> rl, ok |-> TRUE, why |-> "pass", at |-> 0]
  ELSE LET key == keys[i]
           entry == pruneEntry(rl[key], t)
           rl1 == [rl EXCEPT ![key] = entry]
       IN IF isBlocked(entry, t)
          THEN [rl |-> rl1, ok |-> FALSE, why |-> "blocked", at |-> i]
          ELSE IF shortFull(entry)
          THEN [rl |-> [rl EXCEPT ![key] = burstStrike(entry, t)],
                ok |-> FALSE, why |-> "short", at |-> i]
          ELSE IF Len(entry.medium) >= RATE_MEDIUM_MAX
          THEN [rl |-> rl1, ok |-> FALSE, why |-> "medium", at |-> i]
          ELSE IF Len(entry.daily) >= RATE_DAILY_MAX
          THEN [rl |-> rl1, ok |-> FALSE, why |-> "daily", at |-> i]
          ELSE rateCheckLoop(rl1, keys, i + 1, t)

RECURSIVE getRateEntries(_, _, _)
getRateEntries(rl, keys, i) ==
  IF i > Len(keys) THEN rl
  ELSE getRateEntries(getRateEntry(rl, keys[i]), keys, i + 1)

RECURSIVE recordAll(_, _, _, _)
recordAll(rl, keys, i, t) ==
  IF i > Len(keys) THEN rl
  ELSE recordAll([rl EXCEPT ![keys[i]] = recordEvent(@, t)], keys, i + 1, t)

\* checkRateLimitKeys(keys) at time t on table rl: the new table and the result
checkRateLimitKeys(rl, keys, t) ==
  LET r == rateCheckLoop(getRateEntries(rl, keys, 1), keys, 1, t)
  IN IF r.ok THEN [r EXCEPT !.rl = recordAll(r.rl, keys, 1, t)] ELSE r

\* the rate-limit half of maintenanceTick
\* variant: an entry is idle once its short window is empty
RateEntryIdleShort(entry, t) ==
  Len(entry.short) = 0 /\ entry.blockedUntil < t

RateEntryIdle(entry, t) ==
  /\ Len(entry.short) = 0 /\ Len(entry.medium) = 0 /\ Len(entry.daily) = 0
  /\ entry.blockedUntil < t

sweepRateLimits(rl, t) ==
  LET kept == {k \in DOMAIN rl : ~RateEntryIdle(pruneEntry(rl[k], t), t)}
  IN [k \in kept |-> pruneEntry(rl[k], t)]

(***************************************************************************)
(* Topic bridge (the Telegram module).                                     *)
(*                                                                         *)
(* sendToTopic is an async function: it runs to its first pending remote   *)
(* call inside the caller's handler and is resumed by the completion of    *)
(* that call. A task's pc names the remote call it awaits:                 *)
(*   "create1"  createForumTopic of the first createTopicForVisitor        *)
(*   "send1"    the first sendToTopicId                                    *)
(*   "create2"  createForumTopic of the replacement topic                  *)
(*   "send2"    the retry on the replacement topic                         *)
(*   "done"     the promise has settled                                    *)
(* Continuations between two remote calls run as microtasks of one event   *)
(* loop turn, so each resume step is atomic.                               *)
(***************************************************************************)
NoTopic == 0   \* telegram_topic_id NULL (0 is as falsy as null at every read)

getVisitorTopic(vs, visitorId) ==
  IF visitorId \in DOMAIN vs THEN vs[visitorId].telegram_topic_id ELSE NoTopic

\* UPDATE visitors SET telegram_topic_id = ? WHERE id = ?
setTopicId(vs, topicId, visitorId) ==
  IF visitorId \in DOMAIN vs
  THEN [vs EXCEPT ![visitorId].telegram_topic_id = topicId]
  ELSE vs

clearVisitorTopic(vs, visitorId) == setTopicId(vs, NoTopic, visitorId)

\* requireMediaFilePath throws for a media kind whose file is not on disk
mediaMissing(task) == task.type # "text" /\ task.fileUrl = "gone"

NewTask(visitorId, siteName, content, type, fileUrl) ==
  [visitorId |-> visitorId, siteName |-> siteName, content |-> content,
   type |-> type, fileUrl |-> fileUrl, pc |-> "done", topicId |-> NoTopic,
   attempts |-> <<>>, created |-> <<>>, creates |-> 0, recreates |-> 0,
   replacement |-> <<>>, errors |-> <<>>, clearedTo |-> <<>>, steps |-> 0]

\* sendToTopicId up to its remote call: a media file that is missing throws
\* before anything is sent; the catch of sendToTopic (or of the retry) logs it
beginSendTo(task, topicId, pcSend) ==
  IF mediaMissing(task)
  THEN [task EXCEPT !.pc = "done", !.topicId = topicId,
                    !.errors = Append(@, "media")]
  ELSE [task EXCEPT !.pc = pcSend, !.topicId = topicId,
                    !.attempts = Append(@, topicId)]

\* createTopicForVisitor up to its remote call: the cached id when there is
\* one (no call), else createForumTopic is issued and awaited
beginCreate(task, vs, pcCreate, pcSend) ==
  IF getVisitorTopic(vs, task.visitorId) # NoTopic
  THEN beginSendTo(task, getVisitorTopic(vs, task.visitorId), pcSend)
  ELSE [task EXCEPT !.pc = pcCreate, !.creates = @ + 1,
                    !.recreates = @ + (IF pcCreate = "create2" THEN 1 ELSE 0)]

\* sendToTopic from its call to its first pending remote call
beginSendToTopic(vs, visitorId, siteName, content, type, fileUrl) ==
  LET task == NewTask(visitorId, siteName, content, type, fileUrl)
      topicId == getVisitorTopic(vs, visitorId)
  IN IF topicId = NoTopic
     THEN beginCreate(task, vs, "create1", "send1")
     ELSE beginSendTo(task, topicId, "send1")

\* the catch block of the first send
afterSendError(task, vs, err) ==
  IF err = "missing"
  THEN beginCreate([task EXCEPT !.errors = Append(@, err),
                                !.clearedTo = <<getVisitorTopic(
                                   clearVisitorTopic(vs, task.visitorId),
                                   task.visitorId)>>],
                   clearVisitorTopic(vs, task.visitorId), "create2", "send2")
  ELSE [task EXCEPT !.pc = "done", !.errors = Append(@, err)]

\* variant: a missing thread on the retry starts another recovery
afterRetryErrorAgain(task, err) ==
  IF err = "missing"
  THEN [task EXCEPT !.pc = "create2", !.creates = @ + 1, !.recreates = @ + 1,
                    !.errors = Append(@, err)]
  ELSE [task EXCEPT !.pc = "done", !.errors = Append(@, err)]

\* the catch block of the retry
afterRetryError(task, err) ==
  [task EXCEPT !.pc = "done", !.errors = Append(@, err)]

\* the outcomes the platform can give a send to topicId
sendOutcomes(topicId) ==
  IF topicId \in tg.threads THEN {"ok", "other"} ELSE {"missing", "other"}

(***************************************************************************)
(* Session validator.                                                      *)
(***************************************************************************)
SITE_NAME == "default"
ALLOWED_ORIGINS == {"https://a.example", "https://b.example"}
allowedOriginHosts == {toHost(o) : o \in ALLOWED_ORIGINS} \ {""}

\* a bearer token: claims under a signature that jwt.verify accepts or not
Token(claims) == [sig |-> TRUE, claims |-> claims]
Forged(claims) == [sig |-> FALSE, claims |-> claims]

nowSeconds(t) == t \div 1000   \* Math.floor(Date.now() / 1000)

\* INSERT INTO token_sessions (jti, sub, site, origin_host, expires_at)
insertTokenSession(sess, jti, sub, site, host, exp, nowS) ==
  (jti :> [sub |-> sub, site |-> site, origin_host |-> host, expires_at |-> exp,
           revoked_at |-> <<>>, last_seen |-> nowS]) @@ sess

touchTokenSession(sess, jti, nowS) ==
  IF jti \in DOMAIN sess THEN [sess EXCEPT ![jti].last_seen = nowS] ELSE sess

revokeTokenSession(sess, jti, nowS) ==
  IF jti \in DOMAIN sess
  THEN [sess EXCEPT ![jti].revoked_at = <<nowS>>, ![jti].last_seen = nowS]
  ELSE sess

\* DELETE FROM token_sessions WHERE expires_at < ?
purgeExpiredTokenSessions(sess, nowS) ==
  [j \in {x \in DOMAIN sess : ~(sess[x].expires_at < nowS)} |-> sess[j]]

\* the checks of validateTokenSession on the row found for the token id
existingSessionOk(existing, sub, claimSite, requestOriginHost, nowS) ==
  /\ existing.revoked_at = <<>>
  /\ existing.sub = sub
  /\ ~(existing.expires_at < nowS)
  /\ ~(existing.origin_host # "" /\ existing.origin_host # requestOriginHost)
  /\ ~(existing.site # "" /\ claimSite # "" /\ existing.site # claimSite)

\* variant: a credential is still good in the second of its expiry
claimsOkLateExpiry(claims, requestOriginHost, nowS) ==
  /\ claims.jti # "" /\ claims.sub # "" /\ ~(claims.exp < nowS)
  /\ ~(toHost(claims.origin) # "" /\ toHost(claims.origin) # requestOriginHost)
  /\ ~(tokenSiteHost(claims.site) # ""
       /\ tokenSiteHost(claims.site) # requestOriginHost)

\* the checks of validateTokenSession on the claims alone
claimsOk(claims, requestOriginHost, nowS) ==
  /\ claims.jti # "" /\ claims.sub # "" /\ ~(claims.exp <= nowS)
  /\ ~(toHost(claims.origin) # "" /\ toHost(claims.origin) # requestOriginHost)
  /\ ~(tokenSiteHost(claims.site) # ""
       /\ tokenSiteHost(claims.site) # requestOriginHost)

\* variant: the row found is touched before it is examined
validateTokenSessionTouchFirst(sess, claims, requestOriginHost, t) ==
  LET nowS == nowSeconds(t)
      claimSite == tokenSiteHost(claims.site)
  IN IF ~claimsOk(claims, requestOriginHost, nowS)
     THEN [ok |-> FALSE, sess |-> sess]
     ELSE IF claims.jti \notin DOMAIN sess
     THEN [ok |-> TRUE,
           sess |-> insertTokenSession(sess, claims.jti, claims.sub,
                      IF claimSite # "" THEN claimSite ELSE requestOriginHost,
                      requestOriginHost, claims.exp, nowS)]
     ELSE [ok |-> existingSessionOk(sess[claims.jti], claims.sub, claimSite,
                                    requestOriginHost, nowS),
           sess |-> touchTokenSession(sess, claims.jti, nowS)]

validateTokenSession(sess, claims, requestOriginHost, t) ==
  LET nowS == nowSeconds(t)
      claimSite == tokenSiteHost(claims.site)
  IN IF ~claimsOk(claims, requestOriginHost, nowS)
     THEN [ok |-> FALSE, sess |-> sess]
     ELSE IF claims.jti \notin DOMAIN sess
     THEN [ok |-> TRUE,
           sess |-> insertTokenSession(sess, claims.jti, claims.sub,
                      IF claimSite # "" THEN claimSite ELSE requestOriginHost,
                      requestOriginHost, claims.exp, nowS)]
     ELSE IF existingSessionOk(sess[claims.jti], claims.sub, claimSite,
                               requestOriginHost, nowS)
     THEN [ok |-> TRUE, sess |-> touchTokenSession(sess, claims.jti, nowS)]
     ELSE [ok |-> FALSE, sess |-> sess]

\* verifyToken: null is ok = FALSE
verifyToken(sess, token, origin, t) ==
  IF originHost(origin) = "" \/ originHost(origin) \notin allowedOriginHosts
     \/ ~token.sig
  THEN [ok |-> FALSE, sess |-> sess]
  ELSE validateTokenSession(sess, token.claims, originHost(origin), t)

(***************************************************************************)
(* Storage operations on visitors and messages.                            *)
(***************************************************************************)
\* COALESCE(excluded.x, x): a null argument keeps the stored value
coalesce(new, old) == IF new # "" THEN new ELSE old

upsertVisitor(vs, id, name, site, email, authType) ==
  IF id \in DOMAIN vs
  THEN [vs EXCEPT ![id].site = coalesce(site, @), ![id].name = coalesce(name, @),
                  ![id].email = coalesce(email, @),
                  ![id].auth_type = coalesce(authType, @)]
  ELSE (id :> [name |-> name, site |-> site, email |-> email,
               auth_type |-> authType, telegram_topic_id |-> NoTopic]) @@ vs

\* created_at DEFAULT CURRENT_TIMESTAMP: the second of the insertion
addMessage(msgs, visitorId, sender, content, type, fileUrl) ==
  Append(msgs, [id |-> Len(msgs) + 1, visitor_id |-> visitorId,
                sender |-> sender, content |-> content, type |-> type,
                file_url |-> fileUrl, created_at |-> nowSeconds(now)])

\* SELECT * FROM messages WHERE visitor_id = ?: the ids of the rows returned
getHistory(msgs, visitorId) ==
  {msgs[i].id : i \in {j \in DOMAIN msgs : msgs[j].visitor_id = visitorId}}

\* ORDER BY created_at ASC: the sequences of row ids the statement can
\* return; rows of one second come in an order that SQL leaves open
historyOrders(msgs, visitorId) ==
  LET ids == getHistory(msgs, visitorId)
      n == Cardinality(ids)
  IN {ord \in [1..n -> ids] :
        /\ \A i, j \in 1..n : i # j => ord[i] # ord[j]
        /\ \A i, j \in 1..n :
             i < j => msgs[ord[i]].created_at <= msgs[ord[j]].created_at}

\* variant: resolveVisitorId without the comparison with the token subject
resolveVisitorIdAnySubject(sub, visitorParam) ==
  IF sub = "" THEN 401
  ELSE IF visitorParam = "" THEN 400
  ELSE 0

\* resolveVisitorId: 0 when the route's :visitorId is the token subject, else
\* the status of the error
resolveVisitorId(sub, visitorParam) ==
  IF sub = "" THEN 401
  ELSE IF visitorParam = "" THEN 400
  ELSE IF visitorParam # sub THEN 403
  ELSE 0

\* content.length of the message texts of the model
contentLength(content) ==
  CASE content = "" -> 0
    [] content = "LONG" -> MAX_MESSAGE_LENGTH + 1
    [] OTHER -> 1

(***************************************************************************)
(* Sockets and fanout.                                                     *)
(***************************************************************************)
Sockets == {"w1", "w2"}

\* a socket the server has not accepted yet
NewSocket ==
  [readyState |-> "NEW", origin |-> "", ip |-> "", authenticated |-> FALSE,
   claims |-> NoClaims, rlKeys |-> <<>>, visitorId |-> "",
   authTimeout |-> <<>>, closeCode |-> 0, closedBy |-> "",
   openedAt |-> 0, authedAt |-> <<>>, revokedUnder |-> FALSE]

Frame(type, visitorId, msgId, state) ==
  [type |-> type, visitorId |-> visitorId, msgId |-> msgId, state |-> state]

\* ws.close(code): starts the closing handshake of an open socket
wsClose(sock, code, by) ==
  IF sock.readyState = "OPEN"
  THEN [sock EXCEPT !.readyState = "CLOSING", !.closeCode = code, !.closedBy = by]
  ELSE sock

\* getSupportPresenceState: anything but a stored online/offline reads online
\* variant: the stored value is never consulted
getSupportPresenceStateDefault(value) == "online"

getSupportPresenceState(value) ==
  IF value \in {"online", "offline"} THEN value ELSE "online"

\* the deadline setTimeout gives the authentication timer of a socket
authDeadline(t) == t + AUTH_TIMEOUT_MS

\* variant: the callback tests the flag the wrong way round
authTimeoutExpiredInverted(sock) ==
  IF sock.authenticated
  THEN wsClose([sock EXCEPT !.authTimeout = <<>>], CLOSE_AUTH_REQUIRED, "timer")
  ELSE [sock EXCEPT !.authTimeout = <<>>]

\* the callback of authTimeout
authTimeoutExpired(sock) ==
  IF ~sock.authenticated
  THEN wsClose([sock EXCEPT !.authTimeout = <<>>], CLOSE_AUTH_REQUIRED, "timer")
  ELSE [sock EXCEPT !.authTimeout = <<>>]

\* variant: the init handler trusts the visitorId of the frame when it has one
initVisitorIdFromFrame(claims, requested) ==
  IF requested # "" THEN requested ELSE claims.sub

\* visitorId = claims.sub of the init handler; msg.visitorId is never read
initVisitorId(claims, requested) == claims.sub

\* the assignments of a successful auth frame, clearTimeout included
acceptAuth(sock, claims, t) ==
  [sock EXCEPT !.claims = claims, !.rlKeys = rateLimitKeys(claims, sock.ip),
               !.authenticated = TRUE, !.authTimeout = <<>>,
               !.authedAt = <<t>>]

\* variant: the frame is written whatever the state of the socket
broadcastToVisitorAnyState(out, socks, cl, visitorId, frame) ==
  IF visitorId \notin DOMAIN cl THEN out
  ELSE [w \in DOMAIN out |->
          IF w \in cl[visitorId] THEN Append(out[w], frame) ELSE out[w]]

\* variant: the frame is put in front of what the socket was sent before
broadcastToVisitorFront(out, socks, cl, visitorId, frame) ==
  IF visitorId \notin DOMAIN cl THEN out
  ELSE [w \in DOMAIN out |->
          IF w \in cl[visitorId] /\ socks[w].readyState = "OPEN"
          THEN <<frame>> \o out[w] ELSE out[w]]

\* broadcastToVisitor: the outboxes after the frame went to the open sockets
broadcastToVisitor(out, socks, cl, visitorId, frame) ==
  IF visitorId \notin DOMAIN cl THEN out
  ELSE [w \in DOMAIN out |->
          IF w \in cl[visitorId] /\ socks[w].readyState = "OPEN"
          THEN Append(out[w], frame) ELSE out[w]]

\* clients.get(v).add(ws), creating the set when absent
registerClient(cl, visitorId, w) ==
  IF visitorId \in DOMAIN cl
  THEN [cl EXCEPT ![visitorId] = @ \cup {w}]
  ELSE (visitorId :> {w}) @@ cl

deleteClientKey(cl, visitorId) ==
  [v \in DOMAIN cl \ {visitorId} |-> cl[v]]

\* variant: the set of the visitor is kept when its last socket leaves
unregisterClientKeepSet(cl, visitorId, w) ==
  IF visitorId # "" /\ visitorId \in DOMAIN cl
  THEN [cl EXCEPT ![visitorId] = @ \ {w}]
  ELSE cl

\* the deregistration of ws.on('close')
unregisterClient(cl, visitorId, w) ==
  IF visitorId # "" /\ visitorId \in DOMAIN cl
  THEN IF cl[visitorId] \ {w} = {}
       THEN deleteClientKey(cl, visitorId)
       ELSE [cl EXCEPT ![visitorId] = @ \ {w}]
  ELSE cl

(***************************************************************************)
(* Observation (history) helpers. They read the program state and never    *)
(* feed back into it.                                                      *)
(***************************************************************************)
rlVars == <<rateLimits, rlHist>>
sessVars == <<sessions, gateHist>>
dbVars == <<visitors, messages, settings>>
sockVars == <<sockets, clients, sent>>
bridgeVars == <<botOn, tasks, tg>>
flightVars == <<inbound, uploads>>
typingVars == <<typingThrottle, typings>>
vars ==
  <<now, rlVars, sessVars, dbVars, sockVars, bridgeVars, flightVars, typingVars,
    hook, widget, chatHist>>

Lookup(map, k, default) == IF k \in DOMAIN map THEN map[k] ELSE default
Assign(map, k, v) == (k :> v) @@ map
Range(seq) == {seq[i] : i \in DOMAIN seq}
CountOf(seq, x) == Cardinality({i \in DOMAIN seq : seq[i] = x})

EmptyEntryOf(rl, k) == Lookup(rl, k, NewRateEntry)

NoRateCall ==
  [keys |-> <<>>, at |-> 0, ok |-> TRUE, why |-> "none", failAt |-> 0,
   gained |-> <<>>, okUnswept |-> TRUE]

InitRlHist ==
  [checks |-> 0, accepted |-> <<>>, last |-> NoRateCall, consec |-> <<>>,
   shortRejAt |-> <<>>, blockSetAt |-> <<>>, unswept |-> <<>>]

\* what one call of checkRateLimitKeys added to each window of each key
GainedBy(before, after, t) ==
  [k \in DOMAIN after |->
     [short |-> CountOf(after[k].short, t) - CountOf(EmptyEntryOf(before, k).short, t),
      medium |-> CountOf(after[k].medium, t) - CountOf(EmptyEntryOf(before, k).medium, t),
      daily |-> CountOf(after[k].daily, t) - CountOf(EmptyEntryOf(before, k).daily, t)]]

NoteCheck(h, before, keys, r, t) ==
  LET failKey == IF r.ok THEN <<>> ELSE <<keys[r.at]>>
      blockSet == /\ ~r.ok
                  /\ r.rl[keys[r.at]].blockedUntil
                       # EmptyEntryOf(before, keys[r.at]).blockedUntil
  IN [checks |-> h.checks + 1,
      accepted |->
        IF r.ok
        THEN [k \in DOMAIN h.accepted \cup Range(keys) |->
                IF k \in Range(keys)
                THEN Append(Lookup(h.accepted, k, <<>>), t)
                ELSE h.accepted[k]]
        ELSE h.accepted,
      last |-> [keys |-> keys, at |-> t, ok |-> r.ok, why |-> r.why,
                failAt |-> r.at, gained |-> GainedBy(before, r.rl, t),
                okUnswept |-> checkRateLimitKeys(h.unswept, keys, t).ok],
      consec |->
        IF r.ok
        THEN [k \in DOMAIN h.consec \cup Range(keys) |->
                IF k \in Range(keys) THEN 0 ELSE h.consec[k]]
        ELSE IF r.why = "short"
        THEN Assign(h.consec, keys[r.at], Lookup(h.consec, keys[r.at], 0) + 1)
        ELSE h.consec,
      shortRejAt |->
        IF ~r.ok /\ r.why = "short" THEN Assign(h.shortRejAt, keys[r.at], t)
        ELSE h.shortRejAt,
      blockSetAt |->
        IF blockSet THEN Assign(h.blockSetAt, keys[r.at], t) ELSE h.blockSetAt,
      unswept |-> checkRateLimitKeys(h.unswept, keys, t).rl]

(***************************************************************************)
(* Actions shared by the specifications.                                   *)
(***************************************************************************)
\* no pending authentication timer is overtaken by the advance of time
TimersAllow(d) ==
  \A w \in Sockets :
    IF sockets[w].authTimeout = <<>> THEN TRUE
    ELSE now + d <= sockets[w].authTimeout[1]

\* time advances to one of the instants a specification observes
Tick(d, instants) ==
  /\ d > 0 /\ now + d \in instants
  /\ TimersAllow(d)
  /\ now' = now + d
  /\ UNCHANGED <<rlVars, sessVars, dbVars, sockVars, bridgeVars,
                 flightVars, typingVars, hook, widget, chatHist>>

\* maintenanceTick: the rate-limit sweep, then the purge of expired sessions
MaintenanceTick ==
  /\ rateLimits' = sweepRateLimits(rateLimits, now)
  /\ sessions' = purgeExpiredTokenSessions(sessions, nowSeconds(now))
  /\ UNCHANGED <<now, rlHist, gateHist, dbVars, sockVars, bridgeVars,
                 flightVars, typingVars, hook, widget, chatHist>>

\* one call checkRateLimitKeys(rateLimitKeys(claims, ip))
CheckRateLimit(claims, ip) ==
  /\ rlHist.checks < MaxChecks
  /\ LET keys == rateLimitKeys(claims, ip)
         r == checkRateLimitKeys(rateLimits, keys, now)
     IN /\ rateLimits' = r.rl
        /\ rlHist' = NoteCheck(rlHist, rateLimits, keys, r, now)
  /\ UNCHANGED <<now, sessVars, dbVars, sockVars, bridgeVars,
                 flightVars, typingVars, hook, widget, chatHist>>

(***************************************************************************)
(* Topic bridge actions.                                                   *)
(***************************************************************************)
NoteCreateCall(t, visitorId) ==
  [t EXCEPT !.createCalls =
     Assign(@, visitorId, Lookup(@, visitorId, 0) + 1)]

\* the effect of calling sendToTopic(...) without awaiting it, as every
\* caller does: nothing without a bot, else a new task at its first await
startSendToTopic(vs, visitorId, siteName, content, type, fileUrl) ==
  IF ~botOn THEN tasks' = tasks /\ tg' = tg
  ELSE LET task == beginSendToTopic(vs, visitorId, siteName, content, type, fileUrl)
       IN /\ tasks' = Append(tasks, task)
          /\ tg' = IF task.pc = "create1" THEN NoteCreateCall(tg, visitorId) ELSE tg

\* sendToTopic called for a stored visitor (the call of the message handlers)
SendToTopic(visitorId, content, type, fileUrl) ==
  /\ botOn /\ Len(tasks) < MaxSends
  /\ visitorId \in DOMAIN visitors
  /\ startSendToTopic(visitors, visitorId,
                      coalesce(visitors[visitorId].site, SITE_NAME),
                      content, type, fileUrl)
  /\ UNCHANGED <<now, rlVars, sessVars, dbVars, sockVars, botOn,
                 flightVars, typingVars, hook, widget, chatHist>>

\* variant: a failed delivery is reported to the sockets of the visitor
afterDeliveryErrorNotify(out, socks, cl, visitorId) ==
  IF visitorId \notin DOMAIN cl THEN out
  ELSE [w \in DOMAIN out |->
          IF w \in cl[visitorId] /\ socks[w].readyState = "OPEN"
          THEN Append(out[w], Frame("error", "", 0, "delivery")) ELSE out[w]]

\* the catch blocks of createTopicForVisitor and sendToTopic write the error
\* to the console: the outboxes of the sockets stay as they are
afterDeliveryError(out, socks, cl, visitorId) == out

\* createForumTopic returns to task i: a new topic, or a failure
CreateReturn(i, outcome) ==
  /\ i \in DOMAIN tasks /\ tasks[i].pc \in {"create1", "create2"}
  /\ IF outcome = "ok"
     THEN /\ tg.nextTopic <= MaxTopics
          /\ LET id == tg.nextTopic
                 task == [tasks[i] EXCEPT
                            !.created = Append(@, id), !.steps = @ + 1,
                            !.replacement = IF tasks[i].pc = "create2"
                                            THEN <<id>> ELSE @]
             IN /\ tg' = [tg EXCEPT !.threads = @ \cup {id}, !.nextTopic = @ + 1]
                /\ visitors' = setTopicId(visitors, id, task.visitorId)
                /\ tasks' = [tasks EXCEPT ![i] =
                     beginSendTo(task, id,
                                 IF task.pc = "create1" THEN "send1" ELSE "send2")]
                /\ sent' = sent
     ELSE /\ tasks' = [tasks EXCEPT ![i].pc = "done", ![i].steps = @ + 1,
                                    ![i].errors = Append(@, "create")]
          /\ sent' = afterDeliveryError(sent, sockets, clients, tasks[i].visitorId)
          /\ UNCHANGED <<tg, visitors>>
  /\ UNCHANGED <<now, rlVars, sessVars, messages, settings, sockets, clients,
                 botOn, flightVars, typingVars, hook, widget, chatHist>>

\* the send of task i returns: delivered, thread missing, or another error
SendReturn(i, outcome) ==
  /\ i \in DOMAIN tasks /\ tasks[i].pc \in {"send1", "send2"}
  /\ outcome \in sendOutcomes(tasks[i].topicId)
  /\ sent' = IF outcome = "ok" THEN sent
             ELSE afterDeliveryError(sent, sockets, clients, tasks[i].visitorId)
  /\ IF outcome = "ok"
     THEN /\ tasks' = [tasks EXCEPT ![i].pc = "done", ![i].steps = @ + 1]
          /\ UNCHANGED <<tg, visitors>>
     ELSE IF tasks[i].pc = "send1"
     THEN LET task == afterSendError([tasks[i] EXCEPT !.steps = @ + 1],
                                     visitors, outcome)
          IN /\ tasks' = [tasks EXCEPT ![i] = task]
             /\ visitors' = IF outcome = "missing"
                            THEN clearVisitorTopic(visitors, task.visitorId)
                            ELSE visitors
             /\ tg' = IF task.pc = "create2"
                      THEN NoteCreateCall(tg, task.visitorId) ELSE tg
     ELSE /\ tasks' = [tasks EXCEPT ![i] =
                 afterRetryError([tasks[i] EXCEPT !.steps = @ + 1], outcome)]
          /\ UNCHANGED <<tg, visitors>>
  /\ UNCHANGED <<now, rlVars, sessVars, messages, settings, sockets, clients,
                 botOn, flightVars, typingVars, hook, widget, chatHist>>

\* the support team deletes a forum topic on the platform
TgDeleteThread(id) ==
  /\ id \in tg.threads /\ tg.deletes < MaxDeletes
  /\ tg' = [tg EXCEPT !.threads = @ \ {id}, !.deletes = @ + 1]
  /\ UNCHANGED <<now, rlVars, sessVars, dbVars, sockVars, botOn, tasks,
                 flightVars, typingVars, hook, widget, chatHist>>

(***************************************************************************)
(* Gateway actions: one per event of a socket and per HTTP handler.        *)
(* Frames are delivered to the handler of a socket while it is OPEN.       *)
(***************************************************************************)
NoteVerify(h, token, origin, ok, t) ==
  [h EXCEPT
     !.okVal = IF ok THEN @ \cup {<<token.claims, originHost(origin)>>} ELSE @,
     !.resurrected = IF ok /\ token.claims.jti \in h.revoked
                     THEN @ \cup {token.claims.jti} ELSE @,
     !.lastVerify = [claims |-> token.claims, host |-> originHost(origin),
                     ok |-> ok, sig |-> token.sig, at |-> t]]

CanSend(w, n) == Len(sent[w]) + n <= MaxSent

\* one visitor message stored: by whom (a socket, or "http"), for which
\* visitor, under which token subject, with which row id
NoteAccept(h, via, visitorId, sub, id) ==
  [h EXCEPT !.log = Append(@, [via |-> via, visitor |-> visitorId,
                               sub |-> sub, id |-> id])]

\* variant: the message and typing branches do not look at visitorId
frameBranchNoInit(sock, type) ==
  IF ~sock.authenticated THEN (IF type = "auth" THEN "auth" ELSE "close")
  ELSE IF type \in {"init", "typing", "message"} THEN type
  ELSE "ignored"

\* the branch of ws.on('message') a parsed frame of the given type takes
frameBranch(sock, type) ==
  IF ~sock.authenticated THEN (IF type = "auth" THEN "auth" ELSE "close")
  ELSE IF type = "init" THEN "init"
  ELSE IF type = "typing" /\ sock.visitorId # "" THEN "typing"
  ELSE IF type = "message" /\ sock.visitorId # "" THEN "message"
  ELSE "ignored"

NoteFrame(h, w, type) == [h EXCEPT !.lastFrame = [socket |-> w, type |-> type]]

\* an init frame whose visitorId field names somebody else than the subject
NoteInit(h, w, sub, requested) ==
  IF requested \in {"", sub} THEN h
  ELSE [h EXCEPT !.foreignInit = @ \cup {w}]

\* wss.on('connection'): the closure variables and the authentication timer
Connect(w, origin, ip, lastInstant) ==
  /\ sockets[w].readyState = "NEW"
  /\ authDeadline(now) <= lastInstant
  /\ sockets' = [sockets EXCEPT ![w] =
       [NewSocket EXCEPT !.readyState = "OPEN", !.origin = origin, !.ip = ip,
                         !.authTimeout = <<authDeadline(now)>>,
                         !.openedAt = now]]
  /\ UNCHANGED <<now, rlVars, sessVars, dbVars, clients, sent, bridgeVars,
                 flightVars, typingVars, hook, widget, chatHist>>

\* an auth frame with a string token on a socket not yet authenticated
WsAuth(w, token) ==
  /\ sockets[w].readyState = "OPEN" /\ frameBranch(sockets[w], "auth") = "auth"
  /\ CanSend(w, 1)
  /\ LET r == verifyToken(sessions, token, sockets[w].origin, now)
     IN /\ sessions' = r.sess
        /\ gateHist' = NoteVerify(gateHist, token, sockets[w].origin, r.ok, now)
        /\ IF r.ok
           THEN /\ sockets' = [sockets EXCEPT ![w] = acceptAuth(@, token.claims, now)]
                /\ sent' = [sent EXCEPT ![w] = Append(@, Frame("auth_ok", "", 0, ""))]
           ELSE /\ sockets' = [sockets EXCEPT ![w] =
                                 wsClose(@, CLOSE_AUTH_REQUIRED, "frame")]
                /\ sent' = sent
  /\ UNCHANGED <<now, rlVars, dbVars, clients, bridgeVars,
                 flightVars, typingVars, hook, widget, chatHist>>

\* any other parsed frame on a socket not yet authenticated
WsNonAuthFrame(w) ==
  /\ sockets[w].readyState = "OPEN" /\ frameBranch(sockets[w], "other") = "close"
  /\ sockets' = [sockets EXCEPT ![w] = wsClose(@, CLOSE_AUTH_REQUIRED, "frame")]
  /\ chatHist' = NoteFrame(chatHist, w, "other")
  /\ UNCHANGED <<now, rlVars, sessVars, dbVars, clients, sent, bridgeVars,
                 flightVars, typingVars, hook, widget>>

\* a payload JSON.parse rejects, or one whose fields cannot be read (null):
\* the handler throws, the catch logs and nothing else happens
WsBadFrame(w) ==
  /\ sockets[w].readyState = "OPEN"
  /\ chatHist' = NoteFrame(chatHist, w, "unparseable")
  /\ UNCHANGED <<now, rlVars, sessVars, dbVars, sockVars, bridgeVars, flightVars, typingVars, hook, widget>>

\* an init frame, carrying visitorId requested, on an authenticated socket
WsInit(w, requested) ==
  /\ sockets[w].readyState = "OPEN" /\ frameBranch(sockets[w], "init") = "init"
  /\ CanSend(w, 2)
  /\ LET claims == sockets[w].claims
         visitorId == initVisitorId(claims, requested)
     IN /\ sockets' = [sockets EXCEPT ![w].visitorId = visitorId]
        /\ visitors' = upsertVisitor(visitors, visitorId, claims.name,
                                     siteFromClaims(claims, SITE_NAME),
                                     claims.email, authTypeFromClaims(claims))
        /\ clients' = registerClient(clients, visitorId, w)
        /\ sent' = [sent EXCEPT ![w] =
             @ \o <<Frame("init", visitorId, 0, ""),
                    Frame("presence", "", 0, getSupportPresenceState(settings))>>]
        /\ gateHist' = IF sockets[w].revokedUnder
                       THEN [gateHist EXCEPT !.afterRevoke = @ \cup {<<w, "init">>}]
                       ELSE gateHist
        /\ chatHist' = NoteInit(chatHist, w, claims.sub, requested)
  /\ UNCHANGED <<now, rlVars, sessions, messages, settings, bridgeVars,
                 flightVars, typingVars, hook, widget>>

\* variant: only the empty content is refused
validContentNonEmpty(content) == contentLength(content) > 0

\* the content test of the message handler, negated
validContent(content) ==
  contentLength(content) > 0 /\ contentLength(content) <= MAX_MESSAGE_LENGTH

\* a message frame on an initialised socket
WsMessage(w, content) ==
  /\ sockets[w].readyState = "OPEN"
  /\ frameBranch(sockets[w], "message") = "message"
  /\ CanSend(w, 1)
  /\ LET visitorId == sockets[w].visitorId
         r == checkRateLimitKeys(rateLimits, sockets[w].rlKeys, now)
     IN IF ~validContent(content)
        THEN /\ sent' = [sent EXCEPT ![w] = Append(@, Frame("error", "", 0, "length"))]
             /\ UNCHANGED <<rlVars, gateHist, messages, tasks, tg, chatHist>>
        ELSE /\ rlHist.checks < MaxChecks
             /\ rateLimits' = r.rl
             /\ rlHist' = NoteCheck(rlHist, rateLimits, sockets[w].rlKeys, r, now)
             /\ IF ~r.ok
                THEN /\ sent' = [sent EXCEPT ![w] =
                                   Append(@, Frame("error", "", 0, "rate"))]
                     /\ UNCHANGED <<gateHist, messages, tasks, tg, chatHist>>
                ELSE /\ Len(messages) < MaxMsgs
                     /\ botOn => Len(tasks) < MaxSends
                     /\ messages' = addMessage(messages, visitorId, "visitor",
                                               content, "text", "")
                     /\ sent' = broadcastToVisitor(sent, sockets, clients, visitorId,
                                  Frame("message", visitorId, Len(messages) + 1, ""))
                     /\ startSendToTopic(visitors, visitorId,
                          coalesce(Lookup(visitors, visitorId,
                                          [site |-> ""]).site, SITE_NAME),
                          content, "text", "")
                     /\ gateHist' =
                          IF sockets[w].revokedUnder
                          THEN [gateHist EXCEPT !.afterRevoke = @ \cup {<<w, "message">>}]
                          ELSE gateHist
                     /\ chatHist' = NoteAccept(chatHist, w, visitorId,
                                               sockets[w].claims.sub,
                                               Len(messages) + 1)
  /\ UNCHANGED <<now, sessions, visitors, settings, sockets, clients, botOn,
                 flightVars, typingVars, hook, widget>>

\* the peer starts closing (its close frame arrives): the socket is no longer
\* OPEN, its close event has not been emitted yet
PeerClosing(w) ==
  /\ sockets[w].readyState = "OPEN"
  /\ sockets' = [sockets EXCEPT ![w].readyState = "CLOSING", ![w].closedBy = "peer"]
  /\ UNCHANGED <<now, rlVars, sessVars, dbVars, clients, sent, bridgeVars,
                 flightVars, typingVars, hook, widget, chatHist>>

\* ws.on('close'): the close event of a socket, whoever started the close
WsClose(w) ==
  /\ sockets[w].readyState \in {"OPEN", "CLOSING"}
  /\ sockets' = [sockets EXCEPT
       ![w].readyState = "CLOSED", ![w].authTimeout = <<>>,
       ![w].closedBy = IF sockets[w].readyState = "OPEN" THEN "peer" ELSE @]
  /\ clients' = unregisterClient(clients, sockets[w].visitorId, w)
  /\ UNCHANGED <<now, rlVars, sessVars, dbVars, sent, bridgeVars,
                 flightVars, typingVars, hook, widget, chatHist>>

\* the authentication timer of a socket fires
AuthTimeoutFire(w) ==
  /\ sockets[w].authTimeout # <<>>
  /\ now >= sockets[w].authTimeout[1]
  /\ sockets' = [sockets EXCEPT ![w] = authTimeoutExpired(@)]
  /\ UNCHANGED <<now, rlVars, sessVars, dbVars, clients, sent, bridgeVars,
                 flightVars, typingVars, hook, widget, chatHist>>

\* the sockets POST /api/auth/revoke closes: the open ones registered for sub
revokeSockets(socks, cl, sub) ==
  [w \in DOMAIN socks |->
     IF sub \in DOMAIN cl /\ w \in cl[sub]
     THEN wsClose(socks[w], CLOSE_AUTH_REQUIRED, "revoke")
     ELSE socks[w]]

\* POST /api/auth/revoke behind requireAuth
HttpRevoke(token, origin) ==
  LET r == verifyToken(sessions, token, origin, now)
      sub == token.claims.sub
      closed == revokeSockets(sockets, clients, sub)
      marked == [w \in DOMAIN closed |->
                   IF closed[w].authenticated /\ closed[w].claims.sub = sub
                   THEN [closed[w] EXCEPT !.revokedUnder = TRUE]
                   ELSE closed[w]]
  IN /\ IF r.ok
        THEN /\ sessions' = revokeTokenSession(r.sess, token.claims.jti,
                                               nowSeconds(now))
             /\ sockets' = marked
             /\ clients' = deleteClientKey(clients, sub)
             /\ gateHist' =
                  [NoteVerify(gateHist, token, origin, TRUE, now) EXCEPT
                     !.revoked = @ \cup {token.claims.jti},
                     !.revokes = 1,
                     !.survivors = {w \in DOMAIN marked :
                                      /\ marked[w].revokedUnder
                                      /\ marked[w].readyState = "OPEN"}]
        ELSE /\ sessions' = r.sess
             /\ gateHist' = NoteVerify(gateHist, token, origin, FALSE, now)
             /\ UNCHANGED <<sockets, clients>>
     /\ UNCHANGED <<now, rlVars, dbVars, sent, bridgeVars,
                    flightVars, typingVars, hook, widget, chatHist>>

\* the response of one HTTP request of the chat routes
NoteHttp(h, route, sub, valid, param, status, rows) ==
  [h EXCEPT !.lastHttp = [route |-> route, sub |-> sub, valid |-> valid,
                          param |-> param, status |-> status,
                          rows |-> rows, order |-> <<>>,
                          flip |-> 1 - h.lastHttp.flip]]

\* GET /api/chat/:visitorId/history behind requireAuth, as the session store
\* sees it: it reads the rows and changes nothing but what the validation of
\* the token changes
HttpHistory(token, origin) ==
  LET r == verifyToken(sessions, token, origin, now)
  IN /\ sessions' = r.sess
     /\ gateHist' = NoteVerify(gateHist, token, origin, r.ok, now)
     /\ UNCHANGED <<now, rlVars, dbVars, sockVars, bridgeVars,
                    flightVars, typingVars, hook, widget, chatHist>>

ANON_TOKEN_TTL_SECONDS == 900
ANON_EMAIL_REQUIRED == FALSE   \* process.env.ANON_EMAIL_REQUIRED unset

\* the strings of the model that ANON_VISITOR_ID_RE accepts: anon-<uuid>
AnonIds == {"anon-1", "anon-2"}

\* body.visitorId.trim() over the strings of the model ('' when not a string)
trimVisitorId(raw) == IF raw = " anon-2 " THEN "anon-2" ELSE raw

\* variant: any non-empty client id becomes the subject
anonSubjectAsSent(raw, fresh) ==
  IF trimVisitorId(raw) # "" THEN trimVisitorId(raw) ELSE fresh

\* the subject of the anonymous token; fresh is anon-${uuidv4()}
anonSubject(raw, fresh) ==
  IF trimVisitorId(raw) # "" /\ trimVisitorId(raw) \in AnonIds
  THEN trimVisitorId(raw) ELSE fresh

\* POST /api/auth/anonymous: email is "none", or an address whose domain the
\* MX lookup accepts ("good") or not ("bad"); fresh and jti are the uuids drawn
HttpAnonymous(origin, ip, raw, email, fresh, jti) ==
  LET host == originHost(origin)
      keys == <<<<"anon-token", "ip", ip>>>>
      r == checkRateLimitKeys(rateLimits, keys, now)
      sub == anonSubject(raw, fresh)
      claims == Claims(sub, jti, nowSeconds(now) + ANON_TOKEN_TTL_SECONDS,
                       origin, host, TRUE)
  IN /\ IF host = "" \/ host \notin allowedOriginHosts
        THEN /\ chatHist' = NoteHttp(chatHist, "anonymous", "", FALSE, raw, 403, {})
             /\ UNCHANGED rlVars
        ELSE /\ rlHist.checks < MaxChecks
             /\ rateLimits' = r.rl
             /\ rlHist' = NoteCheck(rlHist, rateLimits, keys, r, now)
             /\ chatHist' =
                  IF ~r.ok
                  THEN NoteHttp(chatHist, "anonymous", "", FALSE, raw, 429, {})
                  ELSE IF (ANON_EMAIL_REQUIRED /\ email = "none") \/ email = "bad"
                  THEN NoteHttp(chatHist, "anonymous", "", FALSE, raw, 400, {})
                  ELSE NoteHttp(chatHist, "anonymous", sub, TRUE, raw, 200, {claims})
     /\ UNCHANGED <<now, sessVars, dbVars, sockVars, bridgeVars, flightVars,
                    typingVars, hook, widget>>

\* GET /api/chat/:visitorId/history with its route parameter and its response
HttpGetHistory(token, origin, visitorParam) ==
  LET r == verifyToken(sessions, token, origin, now)
      st == resolveVisitorId(token.claims.sub, visitorParam)
  IN /\ sessions' = r.sess
     /\ gateHist' = NoteVerify(gateHist, token, origin, r.ok, now)
     /\ \E ord \in IF r.ok /\ st = 0
                    THEN historyOrders(messages, token.claims.sub) ELSE {<<>>} :
          chatHist' =
            [NoteHttp(chatHist, "history", token.claims.sub, r.ok, visitorParam,
                      IF ~r.ok THEN 401 ELSE IF st # 0 THEN st ELSE 200,
                      IF r.ok /\ st = 0
                      THEN getHistory(messages, token.claims.sub) ELSE {})
               EXCEPT !.lastHttp.order = ord]
     /\ UNCHANGED <<now, rlVars, dbVars, sockVars, bridgeVars, flightVars, typingVars, hook, widget>>

\* a message or typing frame on a socket that authenticated but has not sent
\* init: visitorId is null, no branch of the handler is taken
TYPING_INTERVAL == 5000

\* variant: a signal is due once the interval has passed, its end included
typingDueInclusive(t, last) == t - last >= TYPING_INTERVAL

\* now - last > 5000 of the typing branch
typingDue(t, last) == t - last > TYPING_INTERVAL

\* sendTypingToTopic up to its await: the invocation as it stands there, or
\* returned when there is no bot or no topic
sendTypingToTopic(vs, visitorId, t) ==
  LET topicId == IF visitorId \in DOMAIN vs THEN vs[visitorId].telegram_topic_id
                 ELSE NoTopic
  IN [visitorId |-> visitorId, at |-> t, topicId |-> topicId,
      pc |-> IF botOn /\ topicId # NoTopic THEN "action" ELSE "done",
      outcome |-> IF ~botOn THEN "nobot"
                  ELSE IF topicId = NoTopic THEN "notopic" ELSE ""]

\* a typing frame on an initialised socket
WsTyping(w) ==
  /\ sockets[w].readyState = "OPEN"
  /\ frameBranch(sockets[w], "typing") = "typing"
  /\ LET visitorId == sockets[w].visitorId
         last == Lookup(typingThrottle, visitorId, 0)
     IN IF typingDue(now, last)
        THEN /\ Len(typings) < MaxTypings
             /\ typingThrottle' = Assign(typingThrottle, visitorId, now)
             /\ typings' = Append(typings, sendTypingToTopic(visitors, visitorId, now))
        ELSE UNCHANGED typingVars
  /\ chatHist' = NoteFrame(chatHist, w, "typing")
  /\ UNCHANGED <<now, rlVars, sessVars, dbVars, sockVars, bridgeVars, flightVars,
                 hook, widget>>

\* bot.sendChatAction of invocation i returns or throws
TypingReturn(i, outcome) ==
  /\ i \in DOMAIN typings /\ typings[i].pc = "action"
  /\ outcome \in sendOutcomes(typings[i].topicId)
  /\ typings' = [typings EXCEPT ![i].pc = "done", ![i].outcome = outcome]
  /\ visitors' = IF outcome = "missing"
                 THEN clearVisitorTopic(visitors, typings[i].visitorId)
                 ELSE visitors
  /\ UNCHANGED <<now, rlVars, sessVars, messages, settings, sockVars, bridgeVars,
                 flightVars, typingThrottle, hook, widget, chatHist>>

WsEarlyFrame(w, type) ==
  /\ sockets[w].readyState = "OPEN" /\ sockets[w].authenticated
  /\ type \in {"message", "typing"}
  /\ frameBranch(sockets[w], type) = "ignored"
  /\ chatHist' = NoteFrame(chatHist, w, type)
  /\ UNCHANGED <<now, rlVars, sessVars, dbVars, sockVars, bridgeVars, flightVars, typingVars, hook, widget>>

\* POST /api/chat/:visitorId/message behind requireAuth
HttpMessage(token, origin, ip, visitorParam, content) ==
  LET r == verifyToken(sessions, token, origin, now)
      claims == token.claims
      st == resolveVisitorId(claims.sub, visitorParam)
      keys == rateLimitKeys(claims, ip)
      rc == checkRateLimitKeys(rateLimits, keys, now)
      vs == upsertVisitor(visitors, claims.sub, claims.name,
                          siteFromClaims(claims, SITE_NAME), claims.email,
                          authTypeFromClaims(claims))
  IN /\ sessions' = r.sess
     /\ gateHist' = NoteVerify(gateHist, token, origin, r.ok, now)
     /\ IF ~r.ok \/ st # 0
           \/ contentLength(content) = 0
           \/ contentLength(content) > MAX_MESSAGE_LENGTH
        THEN /\ chatHist' = NoteHttp(chatHist, "message", claims.sub, r.ok,
                               visitorParam,
                               IF ~r.ok THEN 401 ELSE IF st # 0 THEN st ELSE 400,
                               {})
             /\ UNCHANGED <<rlVars, visitors, messages, sent, tasks, tg>>
        ELSE /\ rlHist.checks < MaxChecks
             /\ rateLimits' = rc.rl
             /\ rlHist' = NoteCheck(rlHist, rateLimits, keys, rc, now)
             /\ IF ~rc.ok
                THEN /\ chatHist' = NoteHttp(chatHist, "message", claims.sub,
                                             TRUE, visitorParam, 429, {})
                     /\ UNCHANGED <<visitors, messages, sent, tasks, tg>>
                ELSE /\ Len(messages) < MaxMsgs
                     /\ botOn => Len(tasks) < MaxSends
                     /\ visitors' = vs
                     /\ messages' = addMessage(messages, claims.sub, "visitor",
                                               content, "text", "")
                     /\ sent' = broadcastToVisitor(sent, sockets, clients, claims.sub,
                                  Frame("message", claims.sub, Len(messages) + 1, ""))
                     /\ startSendToTopic(vs, claims.sub,
                                         coalesce(vs[claims.sub].site, SITE_NAME),
                                         content, "text", "")
                     /\ chatHist' =
                          NoteHttp(NoteAccept(chatHist, "http", claims.sub,
                                              claims.sub, Len(messages) + 1),
                                   "message", claims.sub, TRUE, visitorParam,
                                   200, {Len(messages) + 1})
     /\ UNCHANGED <<now, settings, sockets, clients, botOn, flightVars, typingVars, hook, widget>>

\* the file name `${Date.now()}-${uuidv4()}${ext}` of the n-th stored upload
uploadFileUrl(n) == <<"/uploads/1.png", "/uploads/2.png", "/uploads/3.png">>[n]

\* the tail of the upload handler, from writeFileSync on: store, fan out,
\* forward, respond
finishUpload(visitorId, claims, param) ==
  LET id == Len(messages) + 1
      fileUrl == uploadFileUrl(id)
  IN /\ Len(messages) < MaxMsgs
     /\ botOn => Len(tasks) < MaxSends
     /\ messages' = addMessage(messages, visitorId, "visitor", fileUrl,
                               "image", fileUrl)
     /\ sent' = broadcastToVisitor(sent, sockets, clients, visitorId,
                                   Frame("message", visitorId, id, ""))
     /\ startSendToTopic(visitors', visitorId,
                         coalesce(Lookup(visitors', visitorId, [site |-> ""]).site,
                                  siteFromClaims(claims, SITE_NAME)),
                         fileUrl, "image", fileUrl)
     /\ chatHist' = NoteHttp(NoteAccept(chatHist, "http", visitorId,
                                        claims.sub, id),
                             "upload", claims.sub, TRUE, param, 200, {id})

\* POST /api/chat/:visitorId/upload behind requireAuth, up to the image
\* processing (await sharp) of a body that is a jpg, png or webp; a gif is
\* stored without processing, in the same run
HttpUpload(token, origin, ip, visitorParam, body) ==
  LET r == verifyToken(sessions, token, origin, now)
      claims == token.claims
      st == resolveVisitorId(claims.sub, visitorParam)
      keys == rateLimitKeys(claims, ip)
      rc == checkRateLimitKeys(rateLimits, keys, now)
  IN /\ body \in {"empty", "text", "gif", "png"}
     /\ sessions' = r.sess
     /\ gateHist' = NoteVerify(gateHist, token, origin, r.ok, now)
     /\ IF ~r.ok \/ st # 0
        THEN /\ chatHist' = NoteHttp(chatHist, "upload", claims.sub, r.ok,
                                     visitorParam,
                                     IF ~r.ok THEN 401 ELSE st, {})
             /\ UNCHANGED <<rlVars, visitors, messages, sent, tasks, tg, uploads>>
        ELSE /\ rlHist.checks < MaxChecks
             /\ visitors' = IF claims.sub \in DOMAIN visitors THEN visitors
                            ELSE upsertVisitor(visitors, claims.sub, claims.name,
                                               siteFromClaims(claims, SITE_NAME),
                                               claims.email,
                                               authTypeFromClaims(claims))
             /\ rateLimits' = rc.rl
             /\ rlHist' = NoteCheck(rlHist, rateLimits, keys, rc, now)
             /\ IF ~rc.ok \/ body \in {"empty", "text"}
                THEN /\ chatHist' = NoteHttp(chatHist, "upload", claims.sub,
                                             TRUE, visitorParam,
                                             IF ~rc.ok THEN 429 ELSE 400, {})
                     /\ UNCHANGED <<messages, sent, tasks, tg, uploads>>
                ELSE IF body = "gif"
                THEN /\ finishUpload(claims.sub, claims, visitorParam)
                     /\ uploads' = uploads
                ELSE /\ Len(uploads) < MaxUploads
                     /\ uploads' = Append(uploads,
                                          [visitorId |-> claims.sub, claims |-> claims,
                                           param |-> visitorParam, pc |-> "sharp"])
                     /\ UNCHANGED <<messages, sent, tasks, tg, chatHist>>
     /\ UNCHANGED <<now, settings, sockets, clients, botOn, inbound, typingVars, hook, widget>>

\* the image processing of upload i is over (its failure keeps the raw body)
UploadFinish(i) ==
  /\ i \in DOMAIN uploads /\ uploads[i].pc = "sharp"
  /\ visitors' = visitors
  /\ finishUpload(uploads[i].visitorId, uploads[i].claims, uploads[i].param)
  /\ uploads' = [uploads EXCEPT ![i].pc = "done"]
  /\ UNCHANGED <<now, rlVars, sessVars, settings, sockets, clients, botOn,
                 inbound, typingVars, hook, widget>>

(***************************************************************************)
(* Inbound platform messages: bot.on('message'). A run of the handler that *)
(* awaits no remote call (a text message, a dropped message) is one step:  *)
(* its awaits resolve in microtasks, which run in the order the messages   *)
(* arrived and before any other event. A run that downloads an attachment  *)
(* is suspended until the download returns.                                *)
(***************************************************************************)
\* normalizeCommand on the texts of the model: first token, lower case,
\* @suffix removed
normalizeCommand(text) ==
  CASE text = "/support_online" -> "/support_online"
    [] text = " /Support_Offline@buzzbot now" -> "/support_offline"
    [] text = "/support_status" -> "/support_status"
    [] text = "/support_lunch" -> "/support_lunch"
    [] text = "hello /support_online" -> "hello"
    [] OTHER -> text

\* command.startsWith('/support_')
IsSupportCommand(command) ==
  command \in {"/support_online", "/support_offline", "/support_status",
               "/support_lunch"}

normalizePresenceCommandState(command) ==
  CASE command = "/support_online" -> "online"
    [] command = "/support_offline" -> "offline"
    [] OTHER -> ""

TgMsg(chat, thread, isBot, text, attach, caption) ==
  [chat |-> chat, thread |-> thread, isBot |-> isBot, text |-> text,
   attach |-> attach, caption |-> caption]

\* the guard of handleSupportCommand: it handles the message (returns true)
supportCommandHandled(msg) ==
  /\ botOn /\ ~msg.isBot /\ msg.chat = "group"
  /\ IsSupportCommand(normalizeCommand(msg.text))

\* SELECT * FROM visitors WHERE telegram_topic_id = ?: the rows that match
getVisitorByTopic(vs, topicId) ==
  {v \in DOMAIN vs : vs[v].telegram_topic_id = topicId}

\* broadcastSupportPresence: a presence frame to every open registered socket
\* variant: the frame goes to the sockets of the first visitor only
broadcastSupportPresenceFirst(out, socks, cl, state) ==
  [w \in DOMAIN out |->
     IF (\E v \in DOMAIN cl : w \in cl[v] /\ \A u \in DOMAIN cl : v = u \/ w \in cl[u])
        /\ socks[w].readyState = "OPEN"
     THEN Append(out[w], Frame("presence", "", 0, state)) ELSE out[w]]

broadcastSupportPresence(out, socks, cl, state) ==
  [w \in DOMAIN out |->
     IF (\E v \in DOMAIN cl : w \in cl[v]) /\ socks[w].readyState = "OPEN"
     THEN Append(out[w], Frame("presence", "", 0, state)) ELSE out[w]]

\* mapTelegramInboundMessage once the attachment, if any, is on disk
mapTelegramInboundMessage(msg) ==
  CASE msg.attach = "photo" ->
         [content |-> IF msg.caption # "" THEN msg.caption ELSE "/uploads/tg.jpg",
          type |-> "image", fileUrl |-> "/uploads/tg.jpg"]
    [] msg.attach = "document" ->
         [content |-> "/uploads/tg.bin", type |-> "file",
          fileUrl |-> "/uploads/tg.bin"]
    [] OTHER -> [content |-> msg.text, type |-> "text", fileUrl |-> ""]

InboundRun(msg, pc, visitorId, outcome, rowId) ==
  [msg |-> msg, pc |-> pc, visitorId |-> visitorId, outcome |-> outcome,
   rowId |-> rowId]

\* variant: the agent row is stored for the first visitor row, whatever the
\* thread
storeInboundAnyVisitor(run, visitorId) ==
  LET m == mapTelegramInboundMessage(run.msg)
      v == CHOOSE x \in DOMAIN visitors : TRUE
  IN /\ Len(messages) < MaxMsgs
     /\ messages' = addMessage(messages, v, "agent", m.content, m.type, m.fileUrl)
     /\ sent' = broadcastToVisitor(sent, sockets, clients, v,
                                   Frame("message", v, Len(messages) + 1, ""))

\* the tail of the handler: the agent row and its fanout (wsBroadcast)
storeInbound(run, visitorId) ==
  LET m == mapTelegramInboundMessage(run.msg)
  IN /\ Len(messages) < MaxMsgs
     /\ messages' = addMessage(messages, visitorId, "agent", m.content, m.type,
                               m.fileUrl)
     /\ sent' = broadcastToVisitor(sent, sockets, clients, visitorId,
                                   Frame("message", visitorId, Len(messages) + 1, ""))

\* a platform message reaches the handler
\* the handler of bot.on('message') up to its first await
handleMessage(msg) ==
  /\ botOn /\ Len(inbound) < MaxInbound
  /\ IF supportCommandHandled(msg)
     THEN LET nextState == normalizePresenceCommandState(normalizeCommand(msg.text))
          IN /\ inbound' = Append(inbound, InboundRun(msg, "done", "", "command", 0))
             /\ settings' = IF nextState # "" THEN nextState ELSE settings
             /\ sent' = IF nextState # ""
                        THEN broadcastSupportPresence(sent, sockets, clients, nextState)
                        ELSE sent
             /\ messages' = messages
     ELSE IF \/ msg.thread = NoTopic \/ msg.isBot
             \/ getVisitorByTopic(visitors, msg.thread) = {}
             \/ (msg.attach = "none" /\ msg.text = "")
     THEN /\ inbound' = Append(inbound, InboundRun(msg, "done", "", "dropped", 0))
          /\ UNCHANGED <<settings, sent, messages>>
     ELSE \E v \in getVisitorByTopic(visitors, msg.thread) :
            IF msg.attach = "none"
            THEN /\ storeInbound(InboundRun(msg, "done", v, "stored", 0), v)
                 /\ inbound' = Append(inbound, InboundRun(msg, "done", v, "stored",
                                                         Len(messages) + 1))
                 /\ settings' = settings
            ELSE /\ inbound' = Append(inbound, InboundRun(msg, "download", v, "", 0))
                 /\ UNCHANGED <<settings, sent, messages>>
  /\ UNCHANGED <<now, rlVars, sessVars, visitors, sockets, clients, bridgeVars,
                 uploads, typingVars>>

\* a message that polling hands to the handler
TgMessage(msg) == handleMessage(msg) /\ UNCHANGED <<hook, widget, chatHist>>

MaxUpdates == 2   \* updates the webhook route gives to the bridge

\* variant: the route does not look at the secret header
secretOkAny(configured, header) == TRUE

\* the shared-secret test of the webhook route
secretOk(configured, header) == configured = "" \/ header = configured

\* the status of a webhook request up to the call of processWebhookUpdate
\* (0: the update is passed on); body.kind is "none" for no body, "badid"
\* for an update_id that is not a number
webhookGate(cfg, header, body) ==
  IF cfg.disabled THEN 503
  ELSE IF cfg.mode # "webhook" THEN 409
  ELSE IF ~secretOk(cfg.secret, header) THEN 401
  ELSE IF body.kind \in {"none", "badid"} THEN 400
  ELSE 0

\* processWebhookUpdate: bot && activeMode === 'webhook'
processAccepted(cfg) == botOn /\ cfg.mode = "webhook"

\* POST TELEGRAM_WEBHOOK_PATH; an accepted update with a message runs the
\* message handler inside bot.processUpdate
HttpWebhook(header, body) ==
  LET st == webhookGate(hook, header, body)
  IN IF st # 0
     THEN /\ chatHist' = NoteHttp(chatHist, "webhook", "", FALSE, header, st, {})
          /\ UNCHANGED <<now, rlVars, sessVars, dbVars, sockVars, bridgeVars,
                         flightVars, typingVars, hook, widget>>
     ELSE IF ~processAccepted(hook)
     THEN /\ chatHist' = NoteHttp(chatHist, "webhook", "", FALSE, header, 503, {})
          /\ UNCHANGED <<now, rlVars, sessVars, dbVars, sockVars, bridgeVars,
                         flightVars, typingVars, hook, widget>>
     ELSE /\ hook.processed < MaxUpdates
          /\ hook' = [hook EXCEPT !.processed = @ + 1]
          /\ widget' = widget
          /\ chatHist' = NoteHttp(chatHist, "webhook", "", TRUE, header, 200, {})
          /\ IF body.kind = "message" THEN handleMessage(body.msg)
             ELSE UNCHANGED <<now, rlVars, sessVars, dbVars, sockVars, bridgeVars,
                              flightVars, typingVars>>

\* /^https:\/\//i.test(url) over the URLs of the model
isHttps(url) == url = "https://chat.example/hook"

\* variant: webhook delivery also needs the secret
webhookConfigErrorStrict(cfg) ==
  cfg.url = "" \/ ~isHttps(cfg.url) \/ cfg.secret = ""

\* the configuration errors that init throws in webhook mode
webhookConfigError(cfg) == cfg.url = "" \/ ~isHttps(cfg.url)

\* startServer up to the first platform call of telegram.init, or up to
\* server.listen when the bridge is disabled or has no bot token
StartServer ==
  /\ hook.phase = "down"
  /\ IF hook.disabled \/ ~hook.token
     THEN hook' = [hook EXCEPT !.phase = "listen"] /\ botOn' = botOn
     ELSE hook' = [hook EXCEPT !.phase = "commands"] /\ botOn' = TRUE
  /\ UNCHANGED <<now, rlVars, sessVars, dbVars, sockVars, tasks, tg, flightVars,
                 typingVars, widget, chatHist>>

\* setMyCommands, startPolling or setWebHook returns (ok) or throws
PlatformReturn(ok) ==
  /\ hook.phase \in {"commands", "polling", "setWebHook"}
  /\ hook' =
       [hook EXCEPT !.phase =
          IF ~ok THEN "failed"
          ELSE IF hook.phase # "commands" THEN "listen"
          ELSE IF hook.mode = "polling" THEN "polling"
          ELSE IF webhookConfigError(hook) THEN "failed"
          ELSE "setWebHook"]
  /\ UNCHANGED <<now, rlVars, sessVars, dbVars, sockVars, bridgeVars, flightVars,
                 typingVars, widget, chatHist>>

\* server.listen reports listening (ok) or an error, after which startServer
\* shuts the bridge down and rejects
ServerListen(ok) ==
  /\ hook.phase = "listen"
  /\ hook' = [hook EXCEPT !.phase = IF ok THEN "listening" ELSE "failed"]
  /\ botOn' = IF ok THEN botOn ELSE FALSE
  /\ UNCHANGED <<now, rlVars, sessVars, dbVars, sockVars, tasks, tg, flightVars,
                 typingVars, widget, chatHist>>

\* getFileLink and the download of run i return, or one of them throws
InboundDownloaded(i, ok) ==
  /\ i \in DOMAIN inbound /\ inbound[i].pc = "download"
  /\ IF ok
     THEN /\ storeInbound(inbound[i], inbound[i].visitorId)
          /\ inbound' = [inbound EXCEPT ![i].pc = "done", ![i].outcome = "stored",
                                        ![i].rowId = Len(messages) + 1]
     ELSE /\ inbound' = [inbound EXCEPT ![i].pc = "done", ![i].outcome = "error"]
          /\ UNCHANGED <<sent, messages>>
  /\ UNCHANGED <<now, rlVars, sessVars, visitors, settings, sockets, clients,
                 bridgeVars, uploads, typingVars, hook, widget, chatHist>>

(***************************************************************************)
(* The chat widget (widget.js) of one browser page.                        *)
(*                                                                         *)
(* widget.ws is the socket the variable ws refers to (made = FALSE: null), *)
(* widget.old the sockets it referred to before that have not delivered    *)
(* their close event yet; every socket made by connectWS has the same      *)
(* handlers, which read and write the variables of the page. A pending     *)
(* setTimeout callback is an entry of widget.timers, a pending fetch an    *)
(* entry of widget.fetches. Delays are kept in 1/256 ms, which makes the   *)
(* factor 1.5 exact. A token is the number of its issue, 0 is null.        *)
(***************************************************************************)
MaxTokens == 2    \* tokens the token endpoint issues to the page
MaxOld == 1       \* replaced sockets awaiting their close event
MaxStored == 2    \* messages the server stores for the visitor
MaxFetches == 2   \* requests of the page awaiting their response

\* the positions a pending timer can have: one reconnect, one retry, one
\* refresh and one per agent message
TimerSlots == 1..(3 + MaxStored)

Ms(n) == n * 256
Min(a, b) == IF a < b THEN a ELSE b

serverVars ==
  <<now, rlVars, sessVars, dbVars, sockVars, bridgeVars, flightVars, typingVars,
    hook, chatHist>>

NoWebSocket ==
  [made |-> FALSE, readyState |-> 3, token |-> 0, authOk |-> FALSE,
   inited |-> FALSE, inbox |-> <<>>]

\* new WebSocket(WS_URL): CONNECTING
NewWebSocket == [NoWebSocket EXCEPT !.made = TRUE, !.readyState = 0]

Timer(kind, delay, id) == [kind |-> kind, delay |-> delay, id |-> id]

RemoveAt(seq, i) == SubSeq(seq, 1, i - 1) \o SubSeq(seq, i + 1, Len(seq))

\* the state lines of the script, then init() up to its await
InitWidget ==
  [ws |-> NoWebSocket, old |-> <<>>, wsAuthed |-> FALSE, jwtToken |-> 0,
   reconnectTimer |-> FALSE, reconnectDelay |-> Ms(1000),
   tokenRefreshTimer |-> FALSE, tokenRetryTimer |-> FALSE,
   tokenRetryDelay |-> Ms(2000), messages |-> <<>>, rendered |-> <<>>,
   timers |-> <<>>, fetches |-> <<"init">>, issued |-> 0, refused |-> {},
   stored |-> 0, lastSend |-> ""]

\* Math.min(delay * 1.5, 30000)
nextDelay(delay) == Min((delay * 3) \div 2, Ms(30000))

\* ws && ws.readyState < 2
wsLive(sock) == sock.made /\ sock.readyState < 2

scheduleReconnect(w) ==
  IF w.reconnectTimer THEN w
  ELSE [w EXCEPT !.reconnectTimer = TRUE,
                 !.timers = Append(@, Timer("reconnect", w.reconnectDelay, 0))]

scheduleTokenRetry(w) ==
  IF w.tokenRetryTimer THEN w
  ELSE [w EXCEPT !.tokenRetryTimer = TRUE,
                 !.timers = Append(@, Timer("retry", w.tokenRetryDelay, 0))]

\* clearTimeout of the pending refresh, then a new one in four minutes
scheduleTokenRefresh(w) ==
  [w EXCEPT !.tokenRefreshTimer = TRUE,
            !.timers = Append(SelectSeq(@, LAMBDA t : t.kind # "refresh"),
                              Timer("refresh", Ms(240000), 0))]

\* ws.close() on a socket that is CONNECTING or OPEN: CLOSING, and no message
\* event is delivered any more
closeIfLive(sock) ==
  IF wsLive(sock) THEN [sock EXCEPT !.readyState = 2, !.inbox = <<>>] ELSE sock

connectWS(w) ==
  IF w.jwtToken = 0 \/ wsLive(w.ws) THEN w
  ELSE [w EXCEPT !.wsAuthed = FALSE,
                 !.ws = NewWebSocket,
                 !.old = IF w.ws.made /\ w.ws.readyState = 2
                         THEN Append(@, w.ws) ELSE @]

\* connectWS can keep the socket it replaces
CanConnect(w) ==
  (w.jwtToken # 0 /\ ~wsLive(w.ws) /\ w.ws.made /\ w.ws.readyState = 2)
    => Len(w.old) < MaxOld

\* ws.onerror (when the connection failed), then ws.onclose with code
onclose(w, sock, code) ==
  LET off == [w EXCEPT !.wsAuthed = FALSE,
                       !.refused = IF code = 4001 /\ sock.token # 0
                                   THEN @ \cup {sock.token} ELSE @]
  IN IF code = 4001 THEN scheduleTokenRetry(off) ELSE scheduleReconnect(off)

\* the message branch of ws.onmessage
onMessageFrame(w, frame) ==
  IF \E i \in DOMAIN w.messages : w.messages[i] = frame.id THEN w
  ELSE IF frame.sender = "agent"
  THEN [w EXCEPT !.timers = Append(@, Timer("agent", Ms(1500), frame.id))]
  ELSE [w EXCEPT !.messages = Append(@, frame.id),
                 !.rendered = Append(@, frame.id)]

\* a token fetch started by init (i = 1 at the start), by the refresh timer
\* or by the retry timer returns a token (ok) or null, or the history fetch
\* returns the stored messages (ok) or 401
FetchReturn(i, ok) ==
  /\ i \in DOMAIN widget.fetches
  /\ LET kind == widget.fetches[i]
         w == [widget EXCEPT !.fetches = RemoveAt(@, i)]
         got == [w EXCEPT !.jwtToken = w.issued + 1, !.issued = @ + 1]
     IN /\ (ok /\ kind # "history") => widget.issued < MaxTokens
        /\ widget' =
             CASE kind = "init" ->
                    IF ok THEN connectWS(scheduleTokenRefresh(got))
                    ELSE scheduleTokenRetry(w)
               [] kind = "refresh" ->
                    IF ok
                    THEN scheduleTokenRefresh(
                           connectWS([got EXCEPT !.ws = closeIfLive(@)]))
                    ELSE scheduleTokenRetry(
                           [w EXCEPT !.jwtToken = 0, !.ws = closeIfLive(@)])
               [] kind = "retry" ->
                    IF ok
                    THEN scheduleTokenRefresh(
                           connectWS([got EXCEPT !.tokenRetryDelay = Ms(2000)]))
                    ELSE scheduleTokenRetry(
                           [w EXCEPT !.tokenRetryDelay = nextDelay(@)])
               [] kind = "history" ->
                    IF ok
                    THEN [w EXCEPT !.messages = [k \in 1..w.stored |-> k],
                                   !.rendered = [k \in 1..w.stored |-> k]]
                    ELSE scheduleTokenRetry(w)
        /\ (ok /\ kind = "refresh") => CanConnect([got EXCEPT !.ws = closeIfLive(@)])
        /\ (ok /\ kind = "retry") => CanConnect(got)
  /\ UNCHANGED serverVars

\* the callback of scheduleReconnect runs
ReconnectFire(i) ==
  /\ i \in DOMAIN widget.timers /\ widget.timers[i].kind = "reconnect"
  /\ LET w == [widget EXCEPT !.timers = RemoveAt(@, i),
                             !.reconnectTimer = FALSE,
                             !.reconnectDelay = nextDelay(@)]
     IN CanConnect(w) /\ widget' = connectWS(w)
  /\ UNCHANGED serverVars

\* the callback of scheduleTokenRetry runs up to its await
TokenRetryFire(i) ==
  /\ i \in DOMAIN widget.timers /\ widget.timers[i].kind = "retry"
  /\ Len(widget.fetches) < MaxFetches
  /\ widget' = [widget EXCEPT !.timers = RemoveAt(@, i),
                              !.tokenRetryTimer = FALSE,
                              !.fetches = Append(@, "retry")]
  /\ UNCHANGED serverVars

\* the callback of scheduleTokenRefresh runs up to its await
TokenRefreshFire(i) ==
  /\ i \in DOMAIN widget.timers /\ widget.timers[i].kind = "refresh"
  /\ Len(widget.fetches) < MaxFetches
  /\ widget' = [widget EXCEPT !.timers = RemoveAt(@, i),
                              !.fetches = Append(@, "refresh")]
  /\ UNCHANGED serverVars

\* the 1.5 s callback of an agent message runs
AgentTimerFire(i) ==
  /\ i \in DOMAIN widget.timers /\ widget.timers[i].kind = "agent"
  /\ widget' = [widget EXCEPT !.timers = RemoveAt(@, i),
                              !.messages = Append(@, widget.timers[i].id),
                              !.rendered = Append(@, widget.timers[i].id)]
  /\ UNCHANGED serverVars

\* ws.onopen
SockOpen ==
  /\ widget.ws.made /\ widget.ws.readyState = 0
  /\ widget' = [widget EXCEPT !.reconnectDelay = Ms(1000),
                              !.ws.readyState = 1,
                              !.ws.token = widget.jwtToken]
  /\ UNCHANGED serverVars

\* the auth_ok frame arrives
SockAuthOk ==
  /\ widget.ws.made /\ widget.ws.readyState = 1
  /\ widget.ws.token # 0 /\ ~widget.ws.authOk
  /\ widget' = [widget EXCEPT !.wsAuthed = TRUE, !.ws.authOk = TRUE]
  /\ UNCHANGED serverVars

\* the init frame arrives: loadHistory up to its await
SockInitFrame ==
  /\ widget.ws.made /\ widget.ws.readyState = 1
  /\ widget.ws.authOk /\ ~widget.ws.inited
  /\ Len(widget.fetches) < MaxFetches
  /\ widget' = [widget EXCEPT !.ws.inited = TRUE,
                              !.fetches = IF widget.jwtToken # 0
                                          THEN Append(@, "history") ELSE @]
  /\ UNCHANGED serverVars

\* the server stores a message of the visitor or of an agent and sends its
\* frame to the socket of the page
ServerMessage(sender) ==
  /\ widget.stored < MaxStored
  /\ widget.ws.made /\ widget.ws.readyState = 1 /\ widget.ws.inited
  /\ widget' = [widget EXCEPT !.stored = @ + 1,
                              !.ws.inbox = Append(@, [id |-> widget.stored + 1,
                                                      sender |-> sender])]
  /\ UNCHANGED serverVars

\* a message frame arrives
SockMessage ==
  /\ widget.ws.made /\ widget.ws.readyState = 1 /\ widget.ws.inbox # <<>>
  /\ widget' = onMessageFrame([widget EXCEPT !.ws.inbox = Tail(@)],
                              Head(widget.ws.inbox))
  /\ UNCHANGED serverVars

\* the close event of the current socket (i = 0) or of a replaced one
SockClose(i, code) ==
  /\ code = 4001 => i = 0 /\ widget.ws.readyState = 1 /\ widget.ws.token # 0
  /\ IF i = 0
     THEN /\ widget.ws.made /\ widget.ws.readyState < 3
          /\ widget' = onclose([widget EXCEPT !.ws.readyState = 3,
                                              !.ws.inbox = <<>>],
                               widget.ws, code)
     ELSE /\ i \in DOMAIN widget.old
          /\ widget' = onclose([widget EXCEPT !.old = RemoveAt(@, i)],
                               widget.old[i], code)
  /\ UNCHANGED serverVars

\* sendMessage with a text of valid length: over the socket, or by POST
sendMessage ==
  /\ widget' = [widget EXCEPT !.lastSend =
                  IF widget.ws.made /\ widget.ws.readyState = 1 /\ widget.wsAuthed
                  THEN "socket"
                  ELSE IF widget.jwtToken # 0 THEN "rest" ELSE "none"]
  /\ UNCHANGED serverVars

(***************************************************************************)
(* Initial values.                                                         *)
(***************************************************************************)
NoVerify == [claims |-> NoClaims, host |-> "", ok |-> FALSE, sig |-> FALSE, at |-> 0]

InitGateHist ==
  [okVal |-> {}, revoked |-> {}, resurrected |-> {}, lastVerify |-> NoVerify,
   revokes |-> 0, survivors |-> {}, afterRevoke |-> {}]

NoFrame == [socket |-> "", type |-> ""]

NoHttp ==
  [route |-> "", sub |-> "", valid |-> FALSE, param |-> "", status |-> 0,
   rows |-> {}, order |-> <<>>, flip |-> 0]

\* TELEGRAM_MODE, TELEGRAM_WEBHOOK_SECRET ('' unset), DISABLE_TELEGRAM,
\* TELEGRAM_WEBHOOK_URL, whether TELEGRAM_BOT_TOKEN is set, the number of
\* updates given to bot.processUpdate and the position of startServer
HookConfig(mode, secret, disabled, url, token, phase) ==
  [mode |-> mode, secret |-> secret, disabled |-> disabled, url |-> url,
   token |-> token, processed |-> 0, phase |-> phase]

InitHook ==
  HookConfig("webhook", "", FALSE, "https://chat.example/hook", TRUE, "listening")

InitChatHist ==
  [log |-> <<>>, lastFrame |-> NoFrame, lastHttp |-> NoHttp, foreignInit |-> {}]

InitTg == [threads |-> {}, nextTopic |-> 1, createCalls |-> <<>>, deletes |-> 0]

InitCommon ==
  /\ now = 0
  /\ rateLimits = <<>> /\ rlHist = InitRlHist
  /\ sessions = <<>> /\ gateHist = InitGateHist
  /\ messages = <<>> /\ settings = ""
  /\ sockets = [w \in Sockets |-> NewSocket]
  /\ clients = <<>>
  /\ sent = [w \in Sockets |-> <<>>]
  /\ tasks = <<>> /\ tg = InitTg
  /\ inbound = <<>> /\ uploads = <<>>
  /\ typingThrottle = <<>> /\ typings = <<>>
  /\ hook = InitHook
  /\ widget = InitWidget
  /\ chatHist = InitChatHist

(***************************************************************************)
(* SpecRate: the rate limiter under calls for an anonymous and an          *)
(* authenticated sender behind one IP address, maintenance and time.       *)
(***************************************************************************)
RateAnon == Claims("anon-1", "ja", 900, "https://a.example", "a.example", TRUE)
RateUser == Claims("u1", "ju", 900, "https://a.example", "a.example", FALSE)
RateCallers == {RateAnon, RateUser}
RateDeltas == {5000, 10000, 50000}
RateInstants == {0, 5000, 10000, 60000}

KeyIp == <<"site", "a.example", "ip", "ip1">>
KeyUser == <<"site", "a.example", "user", "u1">>

InitRate == InitCommon /\ visitors = <<>> /\ botOn = FALSE

NextRate ==
  \/ \E c \in RateCallers : CheckRateLimit(c, "ip1")
  \/ MaintenanceTick
  \/ \E d \in RateDeltas : Tick(d, RateInstants)

SpecRate == InitRate /\ [][NextRate]_vars

(***************************************************************************)
(* SpecWindows: the rate limiter of one anonymous sender whose key already *)
(* took 58 accepted checks 2.5 s apart, or 298 accepted checks 10.5 s      *)
(* apart, when the behaviour starts.                                       *)
(***************************************************************************)
\* the table and the history after n accepted checks of keys, step ms apart:
\* the first n - 1 checks leave every timestamp still inside its window in
\* each sequence of each key, the n-th check is applied to that table
warmUp(n, step, keys) ==
  LET times == [i \in 1..(n - 1) |-> i * step]
      before == [k \in Range(keys) |->
                   pruneEntry([NewRateEntry EXCEPT !.short = times,
                                                   !.medium = times,
                                                   !.daily = times],
                              (n - 1) * step)]
      hist == [InitRlHist EXCEPT !.accepted = [k \in Range(keys) |-> times],
                                 !.consec = [k \in Range(keys) |-> 0],
                                 !.unswept = before]
      r == checkRateLimitKeys(before, keys, n * step)
  IN [rl |-> r.rl,
      hist |-> [NoteCheck(hist, before, keys, r, n * step) EXCEPT !.checks = 0]]

WarmMedium == [n |-> RATE_MEDIUM_MAX - 2, step |-> 2500]
WarmDaily == [n |-> RATE_DAILY_MAX - 2, step |-> 10500]
WindowDeltas == {2500, 10500}
WindowHorizon == 32000

WindowInstants ==
  UNION {(c.n * c.step)..(c.n * c.step + WindowHorizon) : c \in {WarmMedium, WarmDaily}}

InitWindows ==
  /\ \E c \in {WarmMedium, WarmDaily} :
       LET w == warmUp(c.n, c.step, rateLimitKeys(RateAnon, "ip1"))
       IN now = c.n * c.step /\ rateLimits = w.rl /\ rlHist = w.hist
  /\ sessions = <<>> /\ gateHist = InitGateHist
  /\ messages = <<>> /\ settings = ""
  /\ sockets = [w \in Sockets |-> NewSocket]
  /\ clients = <<>>
  /\ sent = [w \in Sockets |-> <<>>]
  /\ tasks = <<>> /\ tg = InitTg
  /\ inbound = <<>> /\ uploads = <<>>
  /\ typingThrottle = <<>> /\ typings = <<>>
  /\ hook = InitHook
  /\ widget = InitWidget
  /\ chatHist = InitChatHist
  /\ visitors = <<>> /\ botOn = FALSE

NextWindows ==
  \/ CheckRateLimit(RateAnon, "ip1")
  \/ MaintenanceTick
  \/ \E d \in WindowDeltas : Tick(d, WindowInstants)

SpecWindows == InitWindows /\ [][NextWindows]_vars

(***************************************************************************)
(* SpecSession: validations through the HTTP handlers from any origin,     *)
(* revocations, maintenance sweeps and the passing of seconds.             *)
(***************************************************************************)
\* credentials under the signing secret: one short-lived, two more with the
\* same token id (a later expiry, another subject), one declaring its origin
CredShort == Claims("u1", "j1", 1, "", "", FALSE)
CredLong == Claims("u1", "j1", 3, "", "", FALSE)
CredOther == Claims("u2", "j1", 3, "", "", FALSE)
CredBound == Claims("u1", "j2", 3, "https://a.example", "a.example", FALSE)

SessTokens ==
  {Token(CredShort), Token(CredLong), Token(CredOther), Token(CredBound),
   Forged(CredLong)}
SessOrigins ==
  {"https://a.example", "https://A.example/chat", "https://b.example",
   "https://evil.example", ""}
SessInstants == {1000 * i : i \in 0..MaxSessSec}

InitSession == InitCommon /\ visitors = <<>> /\ botOn = FALSE

NextSession ==
  \/ \E tok \in SessTokens, o \in SessOrigins : HttpHistory(tok, o)
  \/ \E tok \in SessTokens, o \in SessOrigins : HttpRevoke(tok, o)
  \/ MaintenanceTick
  \/ Tick(1000, SessInstants)

SpecSession == InitSession /\ [][NextSession]_vars

(***************************************************************************)
(* SpecOrigin: validations of credentials that expire early, declare an    *)
(* origin, or declare a site only, from every origin, while seconds pass   *)
(* and the maintenance sweep runs.                                         *)
(***************************************************************************)
CredSite == Claims("u2", "j3", 3, "", "b.example", FALSE)
CredOrigin == Claims("u2", "j4", 2, "https://A.example/chat", "", FALSE)

OriginTokens ==
  {Token(CredShort), Token(CredBound), Token(CredSite), Token(CredOrigin),
   Forged(CredLong)}

NextOrigin ==
  \/ \E tok \in OriginTokens, o \in SessOrigins : HttpHistory(tok, o)
  \/ MaintenanceTick
  \/ Tick(1000, SessInstants)

SpecOrigin == InitSession /\ [][NextOrigin]_vars

(***************************************************************************)
(* SpecGate: two sockets from connection to close, the authentication      *)
(* timer, revocation over HTTP and time in steps of half the timeout.      *)
(***************************************************************************)
GateStep == AUTH_TIMEOUT_MS \div 2
GateInstants == {GateStep * i : i \in 0..MaxGateSteps}
GateLast == GateStep * MaxGateSteps
CredGate == Claims("u1", "j1", 900, "", "", FALSE)
GateTokens == {Token(CredGate), Forged(CredGate)}
GateContents == {"a", ""}
InitRequests == {"", "u2"}     \* msg.visitorId of an init frame: absent, or an id

InitGate == InitCommon /\ visitors = <<>> /\ botOn = FALSE

TickGate == Tick(GateStep, GateInstants)

NextGate ==
  \/ \E w \in Sockets : Connect(w, "https://a.example", "ip1", GateLast)
  \/ \E w \in Sockets, tok \in GateTokens : WsAuth(w, tok)
  \/ \E w \in Sockets : WsNonAuthFrame(w)
  \/ \E w \in Sockets : WsInit(w, "")
  \/ \E w \in Sockets, c \in GateContents : WsMessage(w, c)
  \/ \E w \in Sockets : WsClose(w)
  \/ \E w \in Sockets : AuthTimeoutFire(w)
  \/ \E tok \in GateTokens : HttpRevoke(tok, "https://a.example")
  \/ TickGate

SpecGate == InitGate /\ [][NextGate]_vars

(***************************************************************************)
(* SpecAuth: the life of two sockets up to init, with the authentication   *)
(* timer, revocation and time. The event loop runs a due timer callback    *)
(* and time passes: these steps are weakly fair.                           *)
(***************************************************************************)
NextAuth ==
  \/ \E w \in Sockets : Connect(w, "https://a.example", "ip1", GateLast)
  \/ \E w \in Sockets, tok \in GateTokens : WsAuth(w, tok)
  \/ \E w \in Sockets : WsNonAuthFrame(w)
  \/ \E w \in Sockets : WsInit(w, "")
  \/ \E w \in Sockets : WsClose(w)
  \/ \E w \in Sockets : AuthTimeoutFire(w)
  \/ \E tok \in GateTokens : HttpRevoke(tok, "https://a.example")
  \/ TickGate

SpecAuth ==
  /\ InitGate /\ [][NextAuth]_vars
  /\ WF_vars(TickGate)
  /\ \A w \in Sockets : WF_vars(AuthTimeoutFire(w))

(***************************************************************************)
(* SpecChat: two sockets and two visitors sending over the socket and over *)
(* POST message; no bot is configured and no time passes.                  *)
(***************************************************************************)
CredU2 == Claims("u2", "j2", 900, "", "", FALSE)
ChatTokens == {Token(CredGate), Token(CredU2)}

InitChat == InitCommon /\ visitors = <<>> /\ botOn = FALSE

NextChat ==
  \/ \E w \in Sockets : Connect(w, "https://a.example", "ip1", AUTH_TIMEOUT_MS)
  \/ \E w \in Sockets, tok \in ChatTokens : WsAuth(w, tok)
  \/ \E w \in Sockets, v \in InitRequests : WsInit(w, v)
  \/ \E w \in Sockets : WsMessage(w, "a")
  \/ \E tok \in ChatTokens :
       HttpMessage(tok, "https://a.example", "ip1", tok.claims.sub, "a")
  \/ \E w \in Sockets : PeerClosing(w)
  \/ \E w \in Sockets : WsClose(w)

SpecChat == InitChat /\ [][NextChat]_vars

(***************************************************************************)
(* SpecProto: the socket protocol of two sockets and two visitors with     *)
(* every frame kind, unparseable payloads, close and revocation.           *)
(***************************************************************************)
ProtoTokens == {Token(CredGate), Token(CredU2), Forged(CredGate)}
ProtoContents == {"a", "", "LONG"}

NextProto ==
  \/ \E w \in Sockets : Connect(w, "https://a.example", "ip1", AUTH_TIMEOUT_MS)
  \/ \E w \in Sockets, tok \in ChatTokens : WsAuth(w, tok)
  \/ \E w \in Sockets : WsNonAuthFrame(w)
  \/ \E w \in Sockets, v \in InitRequests : WsInit(w, v)
  \/ \E w \in Sockets, t \in {"message", "typing"} : WsEarlyFrame(w, t)
  \/ \E w \in Sockets : WsBadFrame(w)
  \/ \E w \in Sockets : WsMessage(w, "a")
  \/ \E w \in Sockets : WsClose(w)
  \/ \E tok \in ChatTokens : HttpRevoke(tok, "https://a.example")

SpecProto == InitChat /\ [][NextProto]_vars

(***************************************************************************)
(* SpecInbound: platform messages reach the bot while two visitors, whose  *)
(* threads 1 and 2 were created by earlier forwards, hold sockets.         *)
(***************************************************************************)
InboundVisitor(topicId) ==
  [name |-> "", site |-> SITE_NAME, email |-> "", auth_type |-> "authenticated",
   telegram_topic_id |-> topicId]

InboundMsgs ==
  {TgMsg("group", 1, FALSE, "hi", "none", ""),
   TgMsg("group", 2, FALSE, "hi", "none", ""),
   TgMsg("group", 1, FALSE, "", "photo", ""),
   TgMsg("group", 2, FALSE, "", "document", ""),
   TgMsg("group", 3, FALSE, "hi", "none", ""),
   TgMsg("group", NoTopic, FALSE, "hi", "none", ""),
   TgMsg("group", 1, TRUE, "hi", "none", ""),
   TgMsg("group", 1, FALSE, "hello /support_online", "none", ""),
   TgMsg("group", 1, FALSE, "/support_online", "none", ""),
   TgMsg("group", NoTopic, FALSE, " /Support_Offline@buzzbot now", "none", ""),
   TgMsg("other", 1, FALSE, "hi", "none", "")}

InitInbound ==
  /\ now = 0
  /\ rateLimits = <<>> /\ rlHist = InitRlHist
  /\ sessions = <<>> /\ gateHist = InitGateHist
  /\ messages = <<>> /\ settings = ""
  /\ sockets = [w \in Sockets |-> NewSocket]
  /\ clients = <<>>
  /\ sent = [w \in Sockets |-> <<>>]
  /\ tasks = <<>>
  /\ tg = [InitTg EXCEPT !.threads = {1, 2}, !.nextTopic = 3]
  /\ inbound = <<>> /\ uploads = <<>>
  /\ typingThrottle = <<>> /\ typings = <<>>
  /\ hook = InitHook
  /\ widget = InitWidget
  /\ chatHist = InitChatHist
  /\ botOn = TRUE
  /\ visitors = ("u1" :> InboundVisitor(1)) @@ ("u2" :> InboundVisitor(2))

NextInbound ==
  \/ \E w \in Sockets : Connect(w, "https://a.example", "ip1", AUTH_TIMEOUT_MS)
  \/ WsAuth("w1", Token(CredGate)) \/ WsAuth("w2", Token(CredU2))
  \/ \E w \in Sockets : WsInit(w, "")
  \/ \E msg \in InboundMsgs : TgMessage(msg)
  \/ \E i \in 1..MaxInbound, ok \in BOOLEAN : InboundDownloaded(i, ok)

SpecInbound == InitInbound /\ [][NextInbound]_vars

(***************************************************************************)
(* SpecHttp: the three chat routes called with the tokens of two visitors  *)
(* and a forged token, for the path parameter u1, while a socket           *)
(* of either visitor is registered and the bot forwards.                   *)
(***************************************************************************)
HttpBodies == {"gif", "png"}
HttpParams == {"u1"}

InitHttp == InitCommon /\ visitors = <<>> /\ botOn = TRUE

NextHttp ==
  \/ Connect("w1", "https://a.example", "ip1", AUTH_TIMEOUT_MS)
  \/ \E tok \in ChatTokens : WsAuth("w1", tok)
  \/ WsInit("w1", "")
  \/ \E tok \in ProtoTokens, v \in HttpParams :
       HttpGetHistory(tok, "https://a.example", v)
  \/ \E tok \in ProtoTokens, v \in HttpParams :
       HttpMessage(tok, "https://a.example", "ip1", v, "a")
  \/ \E tok \in ProtoTokens, v \in HttpParams, b \in HttpBodies :
       HttpUpload(tok, "https://a.example", "ip1", v, b)
  \/ \E i \in 1..MaxUploads : UploadFinish(i)

SpecHttp == InitHttp /\ [][NextHttp]_vars

(***************************************************************************)
(* SpecReject: the sockets of one visitor send valid and invalid messages  *)
(* while empty uploads of the same visitor use up the rate budget the      *)
(* sockets share with the HTTP routes; the bot forwards.                   *)
(***************************************************************************)
NextReject ==
  \/ \E w \in Sockets : Connect(w, "https://a.example", "ip1", AUTH_TIMEOUT_MS)
  \/ \E w \in Sockets : WsAuth(w, Token(CredGate))
  \/ \E w \in Sockets : WsInit(w, "")
  \/ \E w \in Sockets, c \in ProtoContents : WsMessage(w, c)
  \/ HttpUpload(Token(CredGate), "https://a.example", "ip1", "u1", "empty")

SpecReject == InitHttp /\ [][NextReject]_vars

(***************************************************************************)
(* Properties of the rate limiter (SpecRate).                              *)
(***************************************************************************)
LastRate == rlHist.last
LastFailKey == LastRate.keys[LastRate.failAt]
AcceptedOf(k) == Lookup(rlHist.accepted, k, <<>>)

\* accepted checks of key k inside the short window that ends at t
AcceptedInShort(k, t) ==
  Cardinality({i \in DOMAIN AcceptedOf(k) : t - AcceptedOf(k)[i] < RATE_SHORT_WINDOW})

\* the block set for k covers instant t
BlockCovers(k, t) ==
  IF k \in DOMAIN rlHist.blockSetAt
  THEN rlHist.blockSetAt[k] <= t /\ t < rlHist.blockSetAt[k] + BURST_COOLDOWN
  ELSE FALSE

\* C6: a key never has more than RATE_SHORT_MAX accepted checks in a span
\* shorter than RATE_SHORT_WINDOW (of six successive accepted checks the last
\* is at least a window after the first); a check fails on the short window
\* only when RATE_SHORT_MAX checks were accepted in the window, and it fails
\* at all only for that or inside a block, so the first five checks of a key
\* without history pass and the sixth in the window is rejected.
C6_ShortWindow ==
  /\ \A k \in DOMAIN rlHist.accepted :
       \A i \in DOMAIN AcceptedOf(k) :
         i + RATE_SHORT_MAX \in DOMAIN AcceptedOf(k)
           => AcceptedOf(k)[i + RATE_SHORT_MAX] - AcceptedOf(k)[i] >= RATE_SHORT_WINDOW
  /\ \A k \in DOMAIN rlHist.accepted : AcceptedInShort(k, now) <= RATE_SHORT_MAX
  /\ ~LastRate.ok =>
       \/ LastRate.why = "short"
          /\ AcceptedInShort(LastFailKey, LastRate.at) = RATE_SHORT_MAX
       \/ LastRate.why = "blocked" /\ BlockCovers(LastFailKey, LastRate.at)

\* the sixth check of a key without history, inside the window of the first
C6_Witness ==
  /\ rlHist.checks = RATE_SHORT_MAX + 1
  /\ ~LastRate.ok /\ LastRate.why = "short" /\ LastFailKey = KeyIp
  /\ Len(AcceptedOf(KeyIp)) = RATE_SHORT_MAX
  /\ LastRate.at > AcceptedOf(KeyIp)[1]
  /\ LastRate.at - AcceptedOf(KeyIp)[1] < RATE_SHORT_WINDOW

\* C7: the third consecutive short-window rejection of a key sets a block
\* (never later); no check that includes a key is accepted while a block of
\* that key covers the instant, whatever its windows hold; the rejection
\* that sets the block leaves the strike counter at 0 and the block ending
\* BURST_COOLDOWN later.
C7_BurstBlock ==
  /\ \A k \in DOMAIN rlHist.consec :
       /\ rlHist.consec[k] <= BURST_STRIKE_THRESHOLD
       /\ rlHist.consec[k] = BURST_STRIKE_THRESHOLD =>
            /\ k \in DOMAIN rlHist.blockSetAt
            /\ rlHist.blockSetAt[k] = rlHist.shortRejAt[k]
  /\ LastRate.ok =>
       \A i \in DOMAIN LastRate.keys : ~BlockCovers(LastRate.keys[i], LastRate.at)
  /\ \A k \in DOMAIN rateLimits :
       (/\ ~LastRate.ok /\ LastRate.why = "short" /\ LastFailKey = k
        /\ k \in DOMAIN rlHist.blockSetAt /\ rlHist.blockSetAt[k] = LastRate.at)
       => /\ rateLimits[k].burstStrikes = 0
          /\ rateLimits[k].blockedUntil = LastRate.at + BURST_COOLDOWN

\* a check refused by the block after the short window has emptied, with the
\* other windows far from full
C7_Witness ==
  /\ ~LastRate.ok /\ LastRate.why = "blocked" /\ LastFailKey = KeyIp
  /\ Lookup(rlHist.consec, KeyIp, 0) = BURST_STRIKE_THRESHOLD
  /\ LastRate.at >= rlHist.blockSetAt[KeyIp] + RATE_SHORT_WINDOW
  /\ KeyIp \in DOMAIN rateLimits
  /\ Len(rateLimits[KeyIp].short) = 0
  /\ Len(rateLimits[KeyIp].medium) < RATE_MEDIUM_MAX
  /\ Len(rateLimits[KeyIp].daily) < RATE_DAILY_MAX

GainedNothing(g) == g.short = 0 /\ g.medium = 0 /\ g.daily = 0
GainedOne(g) == g.short = 1 /\ g.medium = 1 /\ g.daily = 1

\* C8: a refused call adds no timestamp to any window of any key; an accepted
\* call adds exactly one to each window of each of its keys and none elsewhere.
C8_AllOrNothing ==
  \A k \in DOMAIN LastRate.gained :
    IF LastRate.ok /\ k \in Range(LastRate.keys)
    THEN GainedOne(LastRate.gained[k])
    ELSE GainedNothing(LastRate.gained[k])

\* a two-key call whose first key passed and whose second key refused, after
\* an earlier two-key call was accepted
C8_Witness ==
  /\ LastRate.keys = <<KeyUser, KeyIp>> /\ ~LastRate.ok /\ LastRate.failAt = 2
  /\ Len(AcceptedOf(KeyUser)) >= 1
  /\ KeyUser \in DOMAIN rateLimits
  /\ Len(rateLimits[KeyUser].short) < RATE_SHORT_MAX
  /\ ~isBlocked(rateLimits[KeyUser], LastRate.at)

\* C23: a check sets a block on a key only as the third short-window
\* rejection of that key in a row, with no accepted check of the key between
\* the three
C23_ConsecutiveStrikes ==
  \A k \in DOMAIN rlHist.blockSetAt :
    (~LastRate.ok /\ LastFailKey = k /\ rlHist.blockSetAt[k] = LastRate.at)
      => Lookup(rlHist.consec, k, 0) = BURST_STRIKE_THRESHOLD

(***************************************************************************)
(* SpecTyping: two sockets of one visitor that has a thread send typing    *)
(* frames before and after init while the clock moves in steps of half the *)
(* throttle interval and the thread may be deleted on the platform.        *)
(***************************************************************************)
TypingStart == 4 * TYPING_INTERVAL   \* Date.now() of a server that is up
TypingStep == TYPING_INTERVAL \div 2
TypingLast == TypingStart + TypingStep * (MaxTypings + 1)
TypingInstants == {TypingStart + TypingStep * i : i \in 0..(MaxTypings + 1)}

TypingOutcomes == {"ok", "missing", "other"}

InitTyping ==
  /\ now = TypingStart
  /\ rateLimits = <<>> /\ rlHist = InitRlHist
  /\ sessions = <<>> /\ gateHist = InitGateHist
  /\ messages = <<>> /\ settings = ""
  /\ sockets = [w \in Sockets |-> NewSocket]
  /\ clients = <<>>
  /\ sent = [w \in Sockets |-> <<>>]
  /\ tasks = <<>>
  /\ tg = [InitTg EXCEPT !.threads = {1}, !.nextTopic = 2]
  /\ inbound = <<>> /\ uploads = <<>>
  /\ typingThrottle = <<>> /\ typings = <<>>
  /\ hook = InitHook
  /\ widget = InitWidget
  /\ chatHist = InitChatHist
  /\ botOn = TRUE
  /\ visitors = "u1" :> InboundVisitor(1)

NextTyping ==
  \/ \E w \in Sockets :
       Connect(w, "https://a.example", "ip1", TypingLast)
  \/ \E w \in Sockets : WsAuth(w, Token(CredGate))
  \/ \E w \in Sockets : WsInit(w, "")
  \/ \E w \in Sockets : WsEarlyFrame(w, "typing")
  \/ \E w \in Sockets : WsTyping(w)
  \/ \E i \in 1..MaxTypings, o \in TypingOutcomes : TypingReturn(i, o)
  \/ TgDeleteThread(1)
  \/ Tick(TypingStep, TypingInstants)

SpecTyping == InitTyping /\ [][NextTyping]_vars

(* Properties of the typing throttle (SpecTyping). *)
\* C25: two typing signals handed to the bridge for one visitor, from
\* whatever sockets, are more than 5 s apart; a typing frame on a socket
\* that is not initialised hands nothing to the bridge; handling a typing
\* frame or the return of a typing signal creates no thread
C25_TypingThrottle ==
  /\ [](\A i, j \in DOMAIN typings :
          (i < j /\ typings[i].visitorId = typings[j].visitorId)
            => typings[j].at - typings[i].at > TYPING_INTERVAL)
  /\ [][\A w \in Sockets :
          (WsEarlyFrame(w, "typing") /\ sockets[w].visitorId = "")
            => UNCHANGED typingVars]_vars
  /\ [][typings' # typings
          => /\ tg'.createCalls = tg.createCalls
             /\ tg'.threads = tg.threads /\ tg'.nextTopic = tg.nextTopic
             /\ tasks' = tasks
             /\ \A v \in DOMAIN visitors :
                  visitors'[v].telegram_topic_id
                    \in {visitors[v].telegram_topic_id, NoTopic}]_vars

\* both sockets of the visitor are initialised and a second signal went to
\* the bridge, half an interval ago, after the first had reached the thread
C25_Witness ==
  /\ \A w \in Sockets : sockets[w].visitorId = "u1"
  /\ Len(typings) = 2
  /\ typings[1].outcome = "ok" /\ typings[2].topicId = 1
  /\ typingThrottle["u1"] = typings[2].at
  /\ chatHist.lastFrame = [socket |-> "w2", type |-> "typing"]
  /\ now - typingThrottle["u1"] = TypingStep

(***************************************************************************)
(* SpecPresence: messages that look like support commands arrive from the  *)
(* group, from a bot and from another chat while the sockets of two        *)
(* visitors connect, register, start closing and close.                    *)
(***************************************************************************)
PresenceMsgs ==
  {TgMsg("group", NoTopic, FALSE, "/support_online", "none", ""),
   TgMsg("group", 1, FALSE, " /Support_Offline@buzzbot now", "none", ""),
   TgMsg("group", NoTopic, FALSE, "/support_status", "none", ""),
   TgMsg("group", 1, FALSE, "/support_lunch", "none", ""),
   TgMsg("group", 1, FALSE, "hello /support_online", "none", ""),
   TgMsg("group", NoTopic, TRUE, "/support_offline", "none", ""),
   TgMsg("other", NoTopic, FALSE, "/support_offline", "none", "")}

NextPresence ==
  \/ \E w \in Sockets : Connect(w, "https://a.example", "ip1", AUTH_TIMEOUT_MS)
  \/ WsAuth("w1", Token(CredGate)) \/ WsAuth("w2", Token(CredU2))
  \/ \E w \in Sockets : WsInit(w, "")
  \/ \E w \in Sockets : PeerClosing(w)
  \/ \E w \in Sockets : WsClose(w)
  \/ \E msg \in PresenceMsgs : TgMessage(msg)

SpecPresence == InitInbound /\ [][NextPresence]_vars

(* Properties of the presence commands (SpecPresence). *)
\* the sockets that are open and in the registry of some visitor
OpenRegistered ==
  {w \in Sockets : sockets[w].readyState = "OPEN"
                   /\ \E v \in DOMAIN clients : w \in clients[v]}

\* the first whitespace-delimited token of a text of the model, lower-cased
\* and without its @suffix
CommandToken(text) ==
  CASE text = "/support_online" -> "/support_online"
    [] text = "/support_offline" -> "/support_offline"
    [] text = " /Support_Offline@buzzbot now" -> "/support_offline"
    [] text = "/support_status" -> "/support_status"
    [] text = "/support_lunch" -> "/support_lunch"
    [] text = "hello /support_online" -> "hello"

PresenceStateOf(token) ==
  IF token = "/support_online" THEN "online" ELSE "offline"

\* C26: a message of a non-bot sender in the support group whose command
\* token is /support_online or /support_offline stores that presence state
\* and appends one presence frame with that state to every open registered
\* socket and to no other; with /support_status or any other /support_ token
\* the stored presence and every socket stay as they are
C26_PresenceCommands ==
  [][\A msg \in PresenceMsgs :
       (TgMessage(msg) /\ ~msg.isBot /\ msg.chat = "group")
         => LET token == CommandToken(msg.text)
            IN IF token \in {"/support_online", "/support_offline"}
               THEN /\ settings' = PresenceStateOf(token)
                    /\ \A w \in Sockets :
                         sent'[w] =
                           IF w \in OpenRegistered
                           THEN Append(sent[w],
                                  Frame("presence", "", 0, PresenceStateOf(token)))
                           ELSE sent[w]
               ELSE token \in {"/support_status", "/support_lunch"}
                      => settings' = settings /\ sent' = sent]_vars

\* the offline command written with capitals, bot suffix and trailing words
\* has replaced a stored online and reached the sockets of both visitors
C26_Witness ==
  /\ settings = "offline"
  /\ \E i, j \in DOMAIN inbound :
       /\ i < j
       /\ inbound[i].msg.text = "/support_online"
       /\ inbound[j].msg.text = " /Support_Offline@buzzbot now"
       /\ inbound[j].outcome = "command"
  /\ "u1" \in DOMAIN clients /\ "w1" \in clients["u1"]
  /\ "u2" \in DOMAIN clients /\ "w2" \in clients["u2"]
  /\ \A w \in Sockets :
       /\ Len(sent[w]) > 1
       /\ sent[w][Len(sent[w])] = Frame("presence", "", 0, "offline")
       /\ sent[w][Len(sent[w]) - 1] = Frame("presence", "", 0, "online")

(***************************************************************************)
(* SpecAnon: requests for an anonymous token from listed and unlisted      *)
(* origins, with and without a visitor id and an e-mail address, while the *)
(* per-address rate limiter fills and time passes.                         *)
(***************************************************************************)
AnonOrigins == {"https://a.example", "https://evil.example", ""}
AnonRequests == {"", " anon-2 ", "ANON-1"}
AnonEmails == {"none", "bad"}
AnonJtis == {"j1"}
AnonInstants == {0, 5000, 10000}

NextAnon ==
  \/ \E o \in AnonOrigins, raw \in AnonRequests, e \in AnonEmails,
        fresh \in AnonIds, jti \in AnonJtis :
       HttpAnonymous(o, "ip1", raw, e, fresh, jti)
  \/ MaintenanceTick
  \/ Tick(5000, AnonInstants)

SpecAnon == InitHttp /\ [][NextAnon]_vars

(* Properties of the anonymous token endpoint (SpecAnon). *)
\* the request origin is on the allow-list
ListedOrigin(o) == originHost(o) # "" /\ originHost(o) \in allowedOriginHosts

\* the tokens handed out by the last response
Issued == chatHist.lastHttp.rows

\* C27: every token of POST /api/auth/anonymous has a subject of the shape
\* anon-<uuid>, which is the client's visitor id when that has the shape and
\* a generated one otherwise; a request from an origin off the allow-list is
\* answered 403 and one refused by the rate limiter 429, both without a token
C27_AnonSubject ==
  /\ [](chatHist.lastHttp.route = "anonymous" =>
          /\ \A c \in Issued :
               /\ c.sub \in AnonIds
               /\ trimVisitorId(chatHist.lastHttp.param) \in AnonIds
                    => c.sub = trimVisitorId(chatHist.lastHttp.param)
          /\ Issued # {} => chatHist.lastHttp.status = 200)
  /\ [][\A o \in AnonOrigins, raw \in AnonRequests, e \in AnonEmails,
          fresh \in AnonIds, jti \in AnonJtis :
          HttpAnonymous(o, "ip1", raw, e, fresh, jti) =>
            /\ ~ListedOrigin(o) =>
                 chatHist'.lastHttp.status = 403 /\ chatHist'.lastHttp.rows = {}
            /\ (ListedOrigin(o) /\ ~rlHist'.last.ok) =>
                 chatHist'.lastHttp.status = 429 /\ chatHist'.lastHttp.rows = {}]_vars

\* a token issued for a client id that lacks the shape: its subject is a
\* generated id
C27_Witness ==
  /\ chatHist.lastHttp.route = "anonymous" /\ chatHist.lastHttp.status = 200
  /\ chatHist.lastHttp.param = "ANON-1"
  /\ \E c \in Issued : c.sub \in AnonIds /\ c.anon

\* a request refused by the rate limiter
C27_WitnessLimited ==
  /\ chatHist.lastHttp.route = "anonymous" /\ chatHist.lastHttp.status = 429
  /\ ~LastRate.ok /\ LastRate.why = "short"

(***************************************************************************)
(* SpecSweep: the maintenance tick among rate checks of one sender and     *)
(* validations of two credentials, over instants around the expiry of the  *)
(* sessions, of a block and of the daily window.                           *)
(***************************************************************************)
SweepInstants ==
  {0, 1000, 2000, BURST_COOLDOWN + 1000, RATE_DAILY_WINDOW}
SweepDeltas ==
  {1000, BURST_COOLDOWN - 1000, RATE_DAILY_WINDOW - BURST_COOLDOWN - 1000}
SweepTokens == {Token(CredShort), Token(CredBound)}

NextSweep ==
  \/ CheckRateLimit(RateAnon, "ip1")
  \/ \E tok \in SweepTokens : HttpHistory(tok, "https://a.example")
  \/ MaintenanceTick
  \/ \E d \in SweepDeltas : Tick(d, SweepInstants)

SpecSweep == InitSession /\ [][NextSweep]_vars

(* Properties of the maintenance tick (SpecSweep). *)
\* a timestamp of seq lies inside the window that ends now
HoldsInWindow(seq, window) == \E i \in DOMAIN seq : now - seq[i] < window

\* the entry of key k holds a timestamp inside one of its three windows
InUse(k) ==
  \/ HoldsInWindow(rateLimits[k].short, RATE_SHORT_WINDOW)
  \/ HoldsInWindow(rateLimits[k].medium, RATE_MEDIUM_WINDOW)
  \/ HoldsInWindow(rateLimits[k].daily, RATE_DAILY_WINDOW)

\* C28: a maintenance tick removes a rate entry only when none of its
\* timestamps is inside its window and its block has ended, and a session
\* only when its expiry is before the current second; the entry of a blocked
\* key, an entry with a timestamp in a window and an unexpired session stay
C28_MaintenanceSafe ==
  [][MaintenanceTick =>
       /\ \A k \in DOMAIN rateLimits :
            /\ k \notin DOMAIN rateLimits'
                 => ~InUse(k) /\ rateLimits[k].blockedUntil < now
            /\ (InUse(k) \/ rateLimits[k].blockedUntil > now)
                 => k \in DOMAIN rateLimits'
       /\ \A j \in DOMAIN sessions :
            /\ j \notin DOMAIN sessions'
                 => sessions[j].expires_at < nowSeconds(now)
            /\ sessions[j].expires_at >= nowSeconds(now)
                 => j \in DOMAIN sessions' /\ sessions'[j] = sessions[j]]_vars

\* after the daily window has passed the tick has removed the entry of a
\* key that was blocked once and the session of a credential accepted once
C28_Witness ==
  /\ now = RATE_DAILY_WINDOW
  /\ KeyIp \in DOMAIN rlHist.blockSetAt /\ KeyIp \notin DOMAIN rateLimits
  /\ \E p \in gateHist.okVal : p[1] = CredShort
  /\ CredShort.jti \notin DOMAIN sessions

\* the tick has removed the expired session and kept the other, and kept the
\* entry of the blocked key
C28_WitnessKept ==
  /\ now = 2000
  /\ KeyIp \in DOMAIN rateLimits /\ rateLimits[KeyIp].blockedUntil > now
  /\ \E p \in gateHist.okVal : p[1] = CredShort
  /\ CredShort.jti \notin DOMAIN sessions /\ CredBound.jti \in DOMAIN sessions

(***************************************************************************)
(* SpecWebhook: requests to the webhook path under every delivery          *)
(* configuration, with and without the secret header, with bodies that     *)
(* carry a message, no message, a bad update_id or nothing.                *)
(***************************************************************************)
HookSecrets == {"", "s3cret"}
HookHeaders == {"", "s3cret", "wrong"}
HookBodies ==
  {[kind |-> "none", msg |-> <<>>], [kind |-> "badid", msg |-> <<>>],
   [kind |-> "empty", msg |-> <<>>],
   [kind |-> "message", msg |-> TgMsg("group", 1, FALSE, "hi", "none", "")],
   [kind |-> "message", msg |-> TgMsg("group", 2, FALSE, "", "photo", "")],
   [kind |-> "message",
    msg |-> TgMsg("group", NoTopic, FALSE, "/support_offline", "none", "")]}

InitWebhook ==
  /\ now = 0
  /\ rateLimits = <<>> /\ rlHist = InitRlHist
  /\ sessions = <<>> /\ gateHist = InitGateHist
  /\ messages = <<>> /\ settings = ""
  /\ sockets = [w \in Sockets |-> NewSocket]
  /\ clients = <<>>
  /\ sent = [w \in Sockets |-> <<>>]
  /\ tasks = <<>>
  /\ tg = [InitTg EXCEPT !.threads = {1, 2}, !.nextTopic = 3]
  /\ inbound = <<>> /\ uploads = <<>>
  /\ typingThrottle = <<>> /\ typings = <<>>
  /\ chatHist = InitChatHist
  /\ visitors = ("u1" :> InboundVisitor(1)) @@ ("u2" :> InboundVisitor(2))
  /\ botOn \in BOOLEAN
  /\ \E mode \in {"webhook", "polling"}, secret \in HookSecrets,
        disabled \in BOOLEAN :
       /\ disabled => ~botOn
       /\ hook = HookConfig(mode, secret, disabled, "https://chat.example/hook",
                            botOn, "listening")
  /\ widget = InitWidget

NextWebhook ==
  \/ \E h \in HookHeaders, b \in HookBodies : HttpWebhook(h, b)
  \/ \E i \in 1..MaxInbound, ok \in BOOLEAN : InboundDownloaded(i, ok)

SpecWebhook == InitWebhook /\ [][NextWebhook]_vars

(* Properties of the webhook route (SpecWebhook). *)
\* the status the route owes a request, 200 when the update is to be passed on
WebhookDue(header, body) ==
  IF hook.disabled THEN 503
  ELSE IF hook.mode # "webhook" THEN 409
  ELSE IF hook.secret # "" /\ header # hook.secret THEN 401
  ELSE IF body.kind \in {"none", "badid"} THEN 400
  ELSE IF ~botOn THEN 503
  ELSE 200

\* C29: a webhook request is passed to the bridge only when delivery is by
\* webhook, the secret header equals the secret if one is configured, and
\* update_id is a number; otherwise it is answered 409, 401 or 400, or 503
\* when the bridge is not initialised, and nothing is processed or stored
C29_WebhookGating ==
  [][\A h \in HookHeaders, b \in HookBodies :
       HttpWebhook(h, b) =>
         /\ chatHist'.lastHttp.status = WebhookDue(h, b)
         /\ IF WebhookDue(h, b) = 200
            THEN hook'.processed = hook.processed + 1
            ELSE UNCHANGED <<hook, inbound, messages, settings, sent>>]_vars

\* with a secret configured an update came through under the right header
\* and its message was stored, and a later request was answered 401
C29_Witness ==
  /\ hook.secret = "s3cret" /\ hook.processed = 1
  /\ Len(messages) = 1
  /\ chatHist.lastHttp.route = "webhook" /\ chatHist.lastHttp.status = 401

(* Properties of origin and expiry in the validation (SpecOrigin). *)
\* the request origin has no host or a host outside the allow-list
BadOrigin(host) == host = "" \/ host \notin allowedOriginHosts

\* the credential's expiry is at or before the second of instant t
Expired(claims, t) == claims.exp <= nowSeconds(t)

\* the credential declares an origin or a site of another host
ForeignClaim(claims, host) ==
  \/ claims.origin # "" /\ toHost(claims.origin) # host
  \/ claims.site # "" /\ toHost(claims.site) # host

Refusable(claims, host, t) ==
  BadOrigin(host) \/ Expired(claims, t) \/ ForeignClaim(claims, host)

\* C24: a validation fails when the request origin has no host or a host
\* outside the allow-list, when the credential's expiry is at or before the
\* current second, and when the credential declares an origin or site of
\* another host than the request's; the validation of a signed credential
\* whose token id has no stored session succeeds exactly when none of these
\* holds
C24_OriginExpiry ==
  /\ [](LET v == gateHist.lastVerify
        IN (v # NoVerify /\ Refusable(v.claims, v.host, v.at)) => ~v.ok)
  /\ [][\A tok \in OriginTokens, o \in SessOrigins :
          (HttpHistory(tok, o) /\ tok.sig /\ tok.claims.jti \notin DOMAIN sessions)
            => (gateHist'.lastVerify.ok
                  <=> ~Refusable(tok.claims, originHost(o), now))]_vars

\* a credential refused in the very second of its expiry, from an allowed
\* origin that it does not contradict
C24_Witness ==
  LET v == gateHist.lastVerify
  IN /\ v.sig /\ ~v.ok
     /\ v.claims.exp = nowSeconds(v.at)
     /\ ~BadOrigin(v.host) /\ ~ForeignClaim(v.claims, v.host)

\* a credential that declares a site only, refused from another allowed origin
C24_WitnessSite ==
  LET v == gateHist.lastVerify
  IN /\ v.sig /\ ~v.ok /\ v.claims = CredSite
     /\ ~BadOrigin(v.host) /\ ~Expired(v.claims, v.at)

\* the timestamps of seq inside the window that ends at t
InWindow(seq, t, window) == Len(FilterWindow(seq, t, window))

\* of max + 1 successive accepted checks of a key the last is at least a
\* window after the first
SpanAtMost(k, max, window) ==
  \A i \in DOMAIN AcceptedOf(k) :
    i + max \in DOMAIN AcceptedOf(k)
      => AcceptedOf(k)[i + max] - AcceptedOf(k)[i] >= window

\* C22: a key never has more than 60 accepted checks in a span of 600 s nor
\* more than 300 in a span of 86400 s; its short, medium and daily sequences
\* hold at most 5, 60 and 300 timestamps of their windows; a check refused
\* by any window adds no timestamp
C22_MediumDaily ==
  /\ \A k \in DOMAIN rlHist.accepted :
       /\ SpanAtMost(k, RATE_MEDIUM_MAX, RATE_MEDIUM_WINDOW)
       /\ SpanAtMost(k, RATE_DAILY_MAX, RATE_DAILY_WINDOW)
  /\ \A k \in DOMAIN rateLimits :
       /\ InWindow(rateLimits[k].short, now, RATE_SHORT_WINDOW) <= RATE_SHORT_MAX
       /\ InWindow(rateLimits[k].medium, now, RATE_MEDIUM_WINDOW) <= RATE_MEDIUM_MAX
       /\ InWindow(rateLimits[k].daily, now, RATE_DAILY_WINDOW) <= RATE_DAILY_MAX
  /\ ~LastRate.ok =>
       \A k \in DOMAIN LastRate.gained : GainedNothing(LastRate.gained[k])

\* a check refused by the full medium window while the short window has room
C22_Witness ==
  /\ ~LastRate.ok /\ LastRate.why = "medium"
  /\ Len(AcceptedOf(KeyIp)) = RATE_MEDIUM_MAX
  /\ Len(rateLimits[KeyIp].short) < RATE_SHORT_MAX
  /\ Len(rateLimits[KeyIp].daily) < RATE_DAILY_MAX

\* a check refused by the full daily window while the other windows have room
C22_WitnessDaily ==
  /\ ~LastRate.ok /\ LastRate.why = "daily"
  /\ Len(AcceptedOf(KeyIp)) = RATE_DAILY_MAX
  /\ Len(rateLimits[KeyIp].short) < RATE_SHORT_MAX
  /\ Len(rateLimits[KeyIp].medium) < RATE_MEDIUM_MAX

(***************************************************************************)
(* SpecBridge: sendToTopic calls for stored visitors, the completions of   *)
(* their remote calls in any order, and topic deletions on the platform.   *)
(***************************************************************************)
BridgeVisitor(authType) ==
  [name |-> "", site |-> "a.example", email |-> "", auth_type |-> authType,
   telegram_topic_id |-> NoTopic]

BridgeVisitors == {"u1", "anon-1"}
BridgeKinds == {<<"text", "">>, <<"image", "gone">>}
CreateOutcomes == {"ok", "error"}
SendOutcomes == {"ok", "missing", "other"}

InitBridge ==
  /\ InitCommon /\ botOn = TRUE
  /\ visitors = [v \in BridgeVisitors |->
                   BridgeVisitor(IF StartsWithAnon(v) THEN "anonymous"
                                 ELSE "authenticated")]

NextBridge ==
  \/ \E v \in BridgeVisitors, k \in BridgeKinds : SendToTopic(v, "a", k[1], k[2])
  \/ \E i \in 1..MaxSends, o \in CreateOutcomes : CreateReturn(i, o)
  \/ \E i \in 1..MaxSends, o \in SendOutcomes : SendReturn(i, o)
  \/ \E id \in 1..MaxTopics : TgDeleteThread(id)

SpecBridge == InitBridge /\ [][NextBridge]_vars

(***************************************************************************)
(* SpecDeliver: messages of one visitor over a socket and POST message are *)
(* forwarded by the bot while the platform answers or fails and the first  *)
(* thread may be deleted.                                                  *)
(***************************************************************************)
NextDeliver ==
  \/ Connect("w1", "https://a.example", "ip1", AUTH_TIMEOUT_MS)
  \/ WsAuth("w1", Token(CredGate))
  \/ WsInit("w1", "")
  \/ WsMessage("w1", "a")
  \/ HttpMessage(Token(CredGate), "https://a.example", "ip1", "u1", "a")
  \/ \E i \in 1..MaxSends, o \in CreateOutcomes : CreateReturn(i, o)
  \/ \E i \in 1..MaxSends, o \in SendOutcomes : SendReturn(i, o)
  \/ TgDeleteThread(1)

SpecDeliver == InitHttp /\ [][NextDeliver]_vars

(***************************************************************************)
(* Properties of the session validator (SpecSession).                      *)
(***************************************************************************)
\* C2: all successful validations of credentials carrying one token id
\* agree on the subject and on the origin host, whatever their expiry
\* claims and whatever validations, revocations and sweeps lie between.
C2_BindingPermanent ==
  \A p, q \in gateHist.okVal :
    p[1].jti = q[1].jti => p[1].sub = q[1].sub /\ p[2] = q[2]

DeclaresNoOrigin(claims) == claims.origin = "" /\ claims.site = ""

\* C3: a credential that declares no origin or site of its own is never
\* validated from two different origin hosts: once it has been validated
\* from host A, a validly signed presentation of the same credential from
\* another allow-listed host fails.
C3_ReplayBinding ==
  /\ \A p, q \in gateHist.okVal :
       (p[1] = q[1] /\ DeclaresNoOrigin(p[1])) => p[2] = q[2]
  /\ LET v == gateHist.lastVerify
     IN (/\ v.sig /\ DeclaresNoOrigin(v.claims)
         /\ v.host \in allowedOriginHosts
         /\ \E p \in gateHist.okVal : p[1] = v.claims /\ p[2] # v.host)
        => ~v.ok

\* C4: no credential carrying a token id that was revoked is validated
\* afterwards, at any later time and whatever sweeps lie between.
C4_RevocationFinal == gateHist.resurrected = {}

(***************************************************************************)
(* Properties of the gateway (SpecGate, SpecAuth).                         *)
(***************************************************************************)
\* C5: right after a successful revoke for a subject no socket that
\* authenticated with that subject is open, and no such socket completes
\* init or has a message stored afterwards.
C5_RevokeClosesAll ==
  gateHist.survivors = {} /\ gateHist.afterRevoke = {}

OpenUnauthenticated(w) ==
  sockets[w].readyState = "OPEN" /\ ~sockets[w].authenticated

C10_TimerState ==
  \A w \in Sockets :
    LET sock == sockets[w] IN
    /\ sock.closedBy = "timer" =>
         /\ ~sock.authenticated /\ sock.authedAt = <<>>
         /\ sock.closeCode = CLOSE_AUTH_REQUIRED
         /\ now >= sock.openedAt + AUTH_TIMEOUT_MS
    /\ sock.authenticated =>
         /\ sock.closedBy # "timer" /\ sock.authTimeout = <<>>
         /\ sock.authedAt # <<>>
         /\ sock.authedAt[1] <= sock.openedAt + AUTH_TIMEOUT_MS
    /\ OpenUnauthenticated(w) =>
         /\ sock.authTimeout = <<sock.openedAt + AUTH_TIMEOUT_MS>>
         /\ now <= sock.openedAt + AUTH_TIMEOUT_MS

\* C10: the authentication timer closes a socket, with code 4001, only when
\* the socket is unauthenticated 5 seconds after it opened, and a socket
\* still open and unauthenticated has that timer pending and has not
\* outlived it; a socket that authenticated has its timer cancelled and is
\* never closed by it; every open socket that has not authenticated comes to
\* be authenticated or closed.
C10_AuthTimeout ==
  /\ []C10_TimerState
  /\ \A w \in Sockets :
       OpenUnauthenticated(w) ~> ~OpenUnauthenticated(w)

\* one socket was closed by its timer at its deadline while another, which
\* authenticated in time, is still open after its own deadline
C10_Witness ==
  \E w1, w2 \in Sockets :
    /\ sockets[w1].closedBy = "timer" /\ sockets[w1].closeCode = CLOSE_AUTH_REQUIRED
    /\ sockets[w2].authenticated /\ sockets[w2].readyState = "OPEN"
    /\ now > sockets[w2].openedAt + AUTH_TIMEOUT_MS

(***************************************************************************)
(* Properties of the topic bridge (SpecBridge).                            *)
(***************************************************************************)
TasksOf(v) == {i \in DOMAIN tasks : tasks[i].visitorId = v}

\* C1: as long as no remote call for visitor v has failed and no topic was
\* deleted, the sends for v have issued at most one createForumTopic, and
\* every send for v went to one and the same topic.
C1_TopicSingleton ==
  \A v \in DOMAIN visitors :
    (tg.deletes = 0 /\ \A i \in TasksOf(v) : tasks[i].errors = <<>>)
    => /\ Lookup(tg.createCalls, v, 0) <= 1
       /\ \A i, j \in TasksOf(v) :
            \A a \in Range(tasks[i].attempts), b \in Range(tasks[j].attempts) : a = b

\* C9: one sendToTopic call makes at most two send attempts, creates at most
\* one replacement topic and takes a bounded number of steps; a missing
\* thread on the first send clears the cached id, and a replacement that was
\* created receives the content exactly once, as the second and last
\* attempt; after any other first failure, and after a failed retry, the
\* call is over with nothing more sent or created.
C9_ThreadRecovery ==
  \A i \in DOMAIN tasks :
    LET t == tasks[i] IN
    /\ Len(t.attempts) <= 2 /\ t.recreates <= 1 /\ t.creates <= 2
    /\ t.steps <= 4
    /\ t.pc \in {"create1", "send1", "create2", "send2", "done"}
    /\ t.recreates = 1 =>
         /\ Len(t.errors) >= 1 /\ t.errors[1] = "missing"
         /\ t.clearedTo = <<NoTopic>>
    /\ t.replacement # <<>> =>
         /\ t.pc \in {"send2", "done"}
         /\ t.attempts = <<t.attempts[1], t.replacement[1]>>
         /\ t.replacement[1] # t.attempts[1]
    /\ (Len(t.errors) >= 1 /\ t.errors[1] # "missing") =>
         /\ t.pc = "done" /\ Len(t.errors) = 1 /\ t.recreates = 0
         /\ Len(t.attempts) <= 1
    /\ Len(t.errors) >= 2 => t.pc = "done" /\ Len(t.errors) = 2

\* a send that found its thread missing, created a replacement, retried on
\* it, failed again and stopped
C9_Witness ==
  \E i \in DOMAIN tasks :
    /\ tasks[i].pc = "done" /\ Len(tasks[i].attempts) = 2
    /\ tasks[i].errors[1] = "missing" /\ Len(tasks[i].errors) = 2
    /\ tasks[i].replacement = <<tasks[i].attempts[2]>>

(***************************************************************************)
(* Properties of the chat paths (SpecChat, SpecProto).                     *)
(***************************************************************************)
\* the positions of the message frames written to socket w
MessageFrames(w) == {p \in DOMAIN sent[w] : sent[w][p].type = "message"}

\* C11: visitor messages of one visitor keep their acceptance order: the one
\* accepted earlier has the smaller row id, the rows are the visitor's, and
\* every socket is sent their frames in that order
C11_MessageOrder ==
  /\ \A i, j \in DOMAIN chatHist.log :
       (i < j /\ chatHist.log[i].visitor = chatHist.log[j].visitor)
         => chatHist.log[i].id < chatHist.log[j].id
  /\ \A i \in DOMAIN chatHist.log :
       /\ chatHist.log[i].id \in DOMAIN messages
       /\ messages[chatHist.log[i].id].visitor_id = chatHist.log[i].visitor
       /\ messages[chatHist.log[i].id].sender = "visitor"
  /\ \A w \in Sockets : \A p, q \in MessageFrames(w) :
       (p < q /\ sent[w][p].visitorId = sent[w][q].visitorId)
         => sent[w][p].msgId < sent[w][q].msgId

\* two messages of one visitor accepted through different paths, both fanned
\* out to one socket
C11_Witness ==
  /\ C11_MessageOrder
  /\ \E i, j \in DOMAIN chatHist.log :
       /\ i < j /\ chatHist.log[i].visitor = chatHist.log[j].visitor
       /\ chatHist.log[i].via # chatHist.log[j].via
       /\ \E w \in Sockets : \E p, q \in MessageFrames(w) :
            /\ p < q
            /\ sent[w][p].msgId = chatHist.log[i].id
            /\ sent[w][q].msgId = chatHist.log[j].id

\* the sockets registered for visitorId that are open
OpenSocketsOf(visitorId) ==
  {w \in Sockets : /\ visitorId \in DOMAIN clients /\ w \in clients[visitorId]
                   /\ sockets[w].readyState = "OPEN"}

\* C18: the event of a stored message is written once, in the step that
\* stores it, to every open socket registered for its visitor, each of which
\* completed init for that visitor; no other socket is written to then, and
\* no message frame is written in any other step or twice to a socket
C18_FanoutDelivery ==
  /\ [][IF Len(messages') = Len(messages) + 1
        THEN LET r == Len(messages')
                 v == messages'[r].visitor_id
             IN \A w \in Sockets :
                  IF w \in OpenSocketsOf(v)
                  THEN /\ sent'[w] = Append(sent[w], Frame("message", v, r, ""))
                       /\ sockets[w].visitorId = v
                  ELSE sent'[w] = sent[w]
        ELSE \A w \in Sockets :
               {p \in DOMAIN sent'[w] : sent'[w][p].type = "message"}
                 = MessageFrames(w)]_vars
  /\ [](\A w \in Sockets : \A p, q \in MessageFrames(w) :
          sent[w][p].msgId = sent[w][q].msgId => p = q)

\* of two sockets registered for u1 the open one got the frame of a message
\* and the closing one missed it; a later message of u2 reached neither
C18_Witness ==
  /\ "u1" \in DOMAIN clients /\ clients["u1"] = Sockets
  /\ \E w, o \in Sockets :
       /\ sockets[w].readyState = "OPEN" /\ sockets[o].readyState = "CLOSING"
       /\ Cardinality(MessageFrames(w)) = 1 /\ MessageFrames(o) = {}
  /\ Len(messages) = 2
  /\ messages[1].visitor_id = "u1" /\ messages[2].visitor_id = "u2"

(***************************************************************************)
(* Properties of the socket protocol (SpecProto).                          *)
(***************************************************************************)
\* a frame that is not a valid auth, init or accepted message reached the
\* handler of its socket in this step
FrameStep == chatHist'.lastFrame # chatHist.lastFrame

ConversationUnchanged == UNCHANGED <<visitors, messages, clients, sent, tasks, tg>>

\* every stored socket message comes from a socket that completed auth and
\* init, and a registered socket was sent auth_ok and then init
GatedState ==
  /\ \A i \in DOMAIN chatHist.log :
       chatHist.log[i].via \in Sockets =>
         /\ sockets[chatHist.log[i].via].authenticated
         /\ sockets[chatHist.log[i].via].visitorId # ""
         /\ chatHist.log[i].visitor = sockets[chatHist.log[i].via].visitorId
  /\ \A r \in DOMAIN messages : messages[r].visitor_id # ""
  /\ \A v \in DOMAIN clients : \A w \in clients[v] :
       /\ sockets[w].authenticated
       /\ \E p, q \in DOMAIN sent[w] :
            p < q /\ sent[w][p].type = "auth_ok" /\ sent[w][q].type = "init"

\* a socket enters the fanout map only in a step that answers its init
RegisteredByInit ==
  \A w \in Sockets :
    ((\E v \in DOMAIN clients' : w \in clients'[v])
       /\ ~(\E v \in DOMAIN clients : w \in clients[v]))
      => /\ sockets[w].authenticated
         /\ Len(sent'[w]) = Len(sent[w]) + 2
         /\ sent'[w][Len(sent[w]) + 1].type = "init"

\* an authenticated socket without init drops message and typing frames
EarlyFrameDropped ==
  LET f == chatHist'.lastFrame
  IN (FrameStep /\ sockets[f.socket].authenticated
        /\ sockets[f.socket].visitorId = "")
       => (ConversationUnchanged /\ sockets' = sockets)

Rejected(w, content) ==
  \/ contentLength(content) = 0
  \/ contentLength(content) > MAX_MESSAGE_LENGTH
  \/ ~checkRateLimitKeys(rateLimits, sockets[w].rlKeys, now).ok

\* C16: a message frame on an initialised socket that is empty, longer than
\* 2000 characters or over the rate limit appends one error frame to that
\* socket and nothing to any other, leaves the socket open, initialised and
\* registered, and changes no row, visitor or forward
C16_RejectedNoEffect ==
  [][\A w \in Sockets, c \in ProtoContents :
       (WsMessage(w, c) /\ Rejected(w, c)) =>
          /\ sent'[w] = Append(sent[w], sent'[w][Len(sent'[w])])
          /\ sent'[w][Len(sent'[w])].type = "error"
          /\ \A o \in Sockets \ {w} : sent'[o] = sent[o]
          /\ sockets' = sockets /\ sockets'[w].readyState = "OPEN"
          /\ sockets'[w].visitorId # ""
          /\ UNCHANGED <<clients, messages, visitors, tasks, tg>>]_vars

\* a socket was refused for the rate limit, another for the length, while a
\* message of the visitor is stored and forwarded
C16_Witness ==
  /\ \E w \in Sockets :
       sent[w] # <<>> /\ sent[w][Len(sent[w])] = Frame("error", "", 0, "rate")
  /\ \E w \in Sockets :
       sent[w] # <<>> /\ sent[w][Len(sent[w])] = Frame("error", "", 0, "length")
  /\ \A w \in Sockets : sockets[w].readyState = "OPEN" /\ sockets[w].visitorId = "u1"

(***************************************************************************)
(* Properties of the outbound delivery (SpecDeliver).                      *)
(***************************************************************************)
IsPrefix(s, t) == Len(s) <= Len(t) /\ \A i \in DOMAIN s : s[i] = t[i]

\* a remote call of some forward returned in this step
BridgeStep == \E i \in DOMAIN tasks : tasks'[i] # tasks[i]

\* every accepted message has its row, its sender got no error frame or HTTP
\* error, and the socket it came through is still open and initialised
AcceptedStays ==
  /\ \A i \in DOMAIN chatHist.log :
       /\ chatHist.log[i].id \in DOMAIN messages
       /\ messages[chatHist.log[i].id].visitor_id = chatHist.log[i].visitor
       /\ chatHist.log[i].via \in Sockets =>
            /\ sockets[chatHist.log[i].via].readyState = "OPEN"
            /\ sockets[chatHist.log[i].via].visitorId = chatHist.log[i].visitor
            /\ \E p \in MessageFrames(chatHist.log[i].via) :
                 sent[chatHist.log[i].via][p].msgId = chatHist.log[i].id
  /\ \A w \in Sockets : \A p \in DOMAIN sent[w] : sent[w][p].type # "error"
  /\ chatHist.lastHttp.status \in {0, 200}

\* C17: the row and the frames of an accepted message stay whatever the
\* forward does: a returning remote call, successful or not, changes no row,
\* outbox, socket, registration or response, rows and frames are never taken
\* back, and no sender gets an error for a failed delivery
C17_DeliveryIsolated ==
  /\ []AcceptedStays
  /\ [][/\ BridgeStep =>
             UNCHANGED <<messages, sent, sockets, clients, chatHist>>
        /\ IsPrefix(messages, messages')
        /\ \A w \in Sockets : IsPrefix(sent[w], sent'[w])]_vars

\* one forward ended on a failed thread creation, another on a failed send,
\* both messages stored and fanned out
C17_Witness ==
  /\ AcceptedStays
  /\ Len(chatHist.log) = 2
  /\ \E i, j \in DOMAIN tasks :
       /\ tasks[i].pc = "done" /\ tasks[i].errors = <<"create">>
       /\ tasks[j].pc = "done" /\ tasks[j].errors # <<>>
       /\ tasks[j].errors # <<"create">>
  /\ \E w \in Sockets : Cardinality(MessageFrames(w)) = 2

\* C19: the fanout map holds no empty set; a socket in the set of visitor v
\* completed init with visitor id v and was sent the init frame for v; a
\* socket is in at most one set; a socket whose close event was handled is in
\* no set
C19_RegistryInvariant ==
  /\ \A v \in DOMAIN clients :
       /\ clients[v] # {}
       /\ \A w \in clients[v] :
            /\ sockets[w].visitorId = v
            /\ \E p \in DOMAIN sent[w] :
                 sent[w][p].type = "init" /\ sent[w][p].visitorId = v
            /\ sockets[w].readyState # "CLOSED"
  /\ \A w \in Sockets : Cardinality({v \in DOMAIN clients : w \in clients[v]}) <= 1

\* after a revocation for u2 emptied its set and closed its socket, whose
\* close event was then handled, a socket of u1 is registered
C19_Witness ==
  /\ C19_RegistryInvariant
  /\ gateHist.revokes > 0
  /\ DOMAIN clients = {"u1"}
  /\ \E w \in Sockets :
       /\ sockets[w].readyState = "CLOSED" /\ sockets[w].visitorId = "u2"
       /\ sockets[w].closedBy = "revoke"

(***************************************************************************)
(* Properties of the HTTP chat routes (SpecHttp).                          *)
(***************************************************************************)
\* C14: a request of history, message or upload is answered 200 only when
\* its token is valid and its subject is the path parameter; a valid token of
\* another subject is answered 403 and an invalid one 401, and such a request
\* returns no rows and leaves rows, visitors, outboxes and forwards unchanged
C14_SubjectCheck ==
  [][chatHist'.lastHttp.flip # chatHist.lastHttp.flip =>
       LET h == chatHist'.lastHttp
       IN /\ h.status = 200 => (h.valid /\ h.sub = h.param)
          /\ ~h.valid => h.status = 401
          /\ (h.valid /\ h.sub # h.param) => h.status = 403
          /\ h.status \in {401, 403} =>
               /\ h.rows = {}
               /\ UNCHANGED <<visitors, messages, sent, tasks, tg, uploads>>]_vars

\* a token of u2 was answered 403 on the routes of u1 while u1 has a stored
\* row and an initialised socket
C14_Witness ==
  /\ chatHist.lastHttp.status = 403
  /\ chatHist.lastHttp.sub = "u2" /\ chatHist.lastHttp.param = "u1"
  /\ chatHist.lastHttp.route = "message"
  /\ getHistory(messages, "u1") # {}
  /\ "u1" \in DOMAIN clients
  /\ \E i \in DOMAIN tasks : tasks[i].visitorId = "u1"

\* the ids of the rows of visitorId in ascending order
RECURSIVE AscendingIds(_, _, _)
AscendingIds(msgs, visitorId, i) ==
  IF i > Len(msgs) THEN <<>>
  ELSE IF msgs[i].visitor_id = visitorId
  THEN <<msgs[i].id>> \o AscendingIds(msgs, visitorId, i + 1)
  ELSE AscendingIds(msgs, visitorId, i + 1)

\* C30: a history request answered 200 returns the ids of exactly the rows
\* stored for the visitor of the token, in ascending order, also when rows
\* were stored in the same second
C30_HistoryContract ==
  [][\A tok \in ProtoTokens, v \in HttpParams :
       (HttpGetHistory(tok, "https://a.example", v)
          /\ chatHist'.lastHttp.status = 200)
         => chatHist'.lastHttp.order = AscendingIds(messages, tok.claims.sub, 1)]_vars

(***************************************************************************)
(* Properties of the inbound path (SpecInbound).                           *)
(***************************************************************************)
StoredRuns == {i \in DOMAIN inbound : inbound[i].outcome = "stored"}

AgentRows == {r \in DOMAIN messages : messages[r].sender = "agent"}

\* the message of run i has a thread id, a human sender and text or an
\* attachment
CarriesReply(i) ==
  /\ ~inbound[i].msg.isBot /\ inbound[i].msg.thread # NoTopic
  /\ (inbound[i].msg.text # "" \/ inbound[i].msg.attach # "none")

\* run i stored one agent row for a visitor whose cached thread id is the
\* thread of its message
StoredForThread(i) ==
  /\ inbound[i].outcome = "stored"
  /\ inbound[i].rowId \in AgentRows
  /\ messages[inbound[i].rowId].visitor_id = inbound[i].visitorId
  /\ inbound[i].visitorId \in getVisitorByTopic(visitors, inbound[i].msg.thread)

\* every stored run has its own row, every agent row its run, and a message
\* frame reaches only sockets initialised for the visitor of its row
OneRowPerRun ==
  /\ \A i, j \in StoredRuns : inbound[i].rowId = inbound[j].rowId => i = j
  /\ Cardinality(AgentRows) = Cardinality(StoredRuns)
  /\ \A w \in Sockets : \A p \in MessageFrames(w) :
       /\ sent[w][p].msgId \in DOMAIN messages
       /\ messages[sent[w][p].msgId].visitor_id = sent[w][p].visitorId
       /\ sockets[w].visitorId = sent[w][p].visitorId

\* C13: on every socket the visitor id answered by init, registered in the
\* fanout map and written into the rows stored for the socket is the subject
\* of the token the socket authenticated with, whatever id init carried
C13_IdentityFromToken ==
  /\ \A w \in Sockets :
       /\ sockets[w].visitorId # "" =>
            sockets[w].authenticated /\ sockets[w].visitorId = sockets[w].claims.sub
       /\ \A v \in DOMAIN clients : w \in clients[v] => v = sockets[w].claims.sub
       /\ \A p \in DOMAIN sent[w] :
            sent[w][p].type = "init" => sent[w][p].visitorId = sockets[w].claims.sub
  /\ \A i \in DOMAIN chatHist.log :
       chatHist.log[i].via \in Sockets =>
         /\ chatHist.log[i].sub = sockets[chatHist.log[i].via].claims.sub
         /\ messages[chatHist.log[i].id].visitor_id = chatHist.log[i].sub

\* a socket authenticated as u1 sent init naming u2, is registered, and a
\* message it sent was stored
C13_Witness ==
  /\ C13_IdentityFromToken
  /\ \E w \in chatHist.foreignInit :
       /\ sockets[w].claims.sub = "u1"
       /\ "u1" \in DOMAIN clients /\ w \in clients["u1"]
       /\ \E i \in DOMAIN chatHist.log : chatHist.log[i].via = w

\* C12: two replies that arrive in one order for one visitor's thread are
\* persisted in that order, the earlier one with the smaller row id
C12_ReplyOrder ==
  \A i, j \in StoredRuns :
    (i < j /\ inbound[i].visitorId = inbound[j].visitorId)
      => inbound[i].rowId < inbound[j].rowId

C33_GroupOnly ==
  \A i \in StoredRuns : inbound[i].msg.chat = "group"

(***************************************************************************)
(* Properties of the cached thread id (SpecBridge).                        *)
(***************************************************************************)
\* C21: a cached thread id that is set changes only in a step in which the
\* platform reports that very thread missing to a send of the visitor, and
\* no two visitors hold the same cached thread id
C21_ThreadStable ==
  /\ [][\A v \in DOMAIN visitors :
          (visitors[v].telegram_topic_id # NoTopic
             /\ visitors'[v].telegram_topic_id # visitors[v].telegram_topic_id)
            => \E i \in DOMAIN tasks :
                 /\ tasks[i].visitorId = v
                 /\ tasks[i].topicId = visitors[v].telegram_topic_id
                 /\ tasks'[i].errors = Append(tasks[i].errors, "missing")]_vars
  /\ [](\A v, u \in DOMAIN visitors :
          (v # u /\ visitors[v].telegram_topic_id # NoTopic)
            => visitors[v].telegram_topic_id # visitors[u].telegram_topic_id)

(***************************************************************************)
(* SpecStartup: startServer under every delivery configuration, with       *)
(* platform calls and server.listen that succeed or fail.                  *)
(***************************************************************************)
StartUrls == {"", "http://chat.example/hook", "https://chat.example/hook"}

InitStartup ==
  /\ now = 0
  /\ rateLimits = <<>> /\ rlHist = InitRlHist
  /\ sessions = <<>> /\ gateHist = InitGateHist
  /\ messages = <<>> /\ settings = ""
  /\ sockets = [w \in Sockets |-> NewSocket]
  /\ clients = <<>>
  /\ sent = [w \in Sockets |-> <<>>]
  /\ tasks = <<>> /\ tg = InitTg
  /\ inbound = <<>> /\ uploads = <<>>
  /\ typingThrottle = <<>> /\ typings = <<>>
  /\ chatHist = InitChatHist
  /\ visitors = <<>> /\ botOn = FALSE
  /\ \E mode \in {"webhook", "polling"}, secret \in HookSecrets,
        disabled \in BOOLEAN, url \in StartUrls, token \in BOOLEAN :
       hook = HookConfig(mode, secret, disabled, url, token, "down")
  /\ widget = InitWidget

NextStartup ==
  \/ StartServer
  \/ \E ok \in BOOLEAN : PlatformReturn(ok)
  \/ \E ok \in BOOLEAN : ServerListen(ok)

SpecStartup == InitStartup /\ [][NextStartup]_vars

(* Properties of the start-up (SpecStartup). *)
\* C31: with delivery by webhook the server is listening only if both the
\* public URL and the secret of the webhook are configured
C31_WebhookConfigTogether ==
  (hook.phase = "listening" /\ hook.mode = "webhook")
    => (hook.url # "" /\ hook.secret # "")

\* the server listens with a bot, webhook delivery and an https URL, and no
\* secret
StartedWithoutSecret ==
  /\ hook.phase = "listening" /\ hook.mode = "webhook" /\ botOn
  /\ isHttps(hook.url) /\ hook.secret = ""

(***************************************************************************)
(* SpecBudget: an authenticated sender uses the socket, POST message and   *)
(* POST upload from one address, and an anonymous sender POST message from *)
(* the same address, while the short window fills and passes.              *)
(***************************************************************************)
BudgetTokens == {Token(RateUser), Token(RateAnon)}
BudgetBodies == {"empty", "gif"}
BudgetInstants == {0, RATE_SHORT_WINDOW}

NextBudget ==
  \/ Connect("w1", "https://a.example", "ip1", AUTH_TIMEOUT_MS)
  \/ WsAuth("w1", Token(RateUser))
  \/ WsInit("w1", "")
  \/ WsMessage("w1", "a")
  \/ \E tok \in BudgetTokens :
       HttpMessage(tok, "https://a.example", "ip1", tok.claims.sub, "a")
  \/ \E b \in BudgetBodies :
       HttpUpload(Token(RateUser), "https://a.example", "ip1", "u1", b)
  \/ Tick(RATE_SHORT_WINDOW, BudgetInstants)

SpecBudget == InitSession /\ [][NextBudget]_vars

(* Properties of the shared rate budget (SpecBudget). *)
\* the keys a sender with these claims at address ip1 of site a.example is
\* limited by
BudgetKeys(claims) ==
  IF claims.anon THEN <<KeyIp>>
  ELSE << <<"site", "a.example", "user", claims.sub>>, KeyIp >>

\* this step ran a rate check
Checked == rlHist'.checks = rlHist.checks + 1

\* C32: a message over the socket, over POST message or over POST upload is
\* checked against the same keys for the same credential and address, the
\* address key alone for an anonymous sender and the user key and the
\* address key for an authenticated one; it is accepted only when its check
\* passes, and no key has more than 5 passed checks in a span of 10 s
C32_SharedBudget ==
  /\ [](\A k \in DOMAIN rlHist.accepted :
          SpanAtMost(k, RATE_SHORT_MAX, RATE_SHORT_WINDOW))
  /\ [][/\ (WsMessage("w1", "a") /\ Checked)
             => rlHist'.last.keys = BudgetKeys(sockets["w1"].claims)
        /\ \A tok \in BudgetTokens :
             (HttpMessage(tok, "https://a.example", "ip1", tok.claims.sub, "a")
                /\ Checked)
               => rlHist'.last.keys = BudgetKeys(tok.claims)
        /\ \A b \in BudgetBodies :
             (HttpUpload(Token(RateUser), "https://a.example", "ip1", "u1", b)
                /\ Checked)
               => rlHist'.last.keys = BudgetKeys(RateUser)
        /\ Len(messages') > Len(messages) => Checked /\ rlHist'.last.ok]_vars

\* a POST message of the authenticated sender is refused by the short window
\* that a socket message, a stored upload and empty uploads of the same
\* sender have filled
C32_Witness ==
  /\ chatHist.lastHttp.route = "message" /\ chatHist.lastHttp.status = 429
  /\ chatHist.lastHttp.sub = "u1"
  /\ ~LastRate.ok /\ LastRate.why = "short" /\ LastRate.keys = BudgetKeys(RateUser)
  /\ \E i \in DOMAIN chatHist.log :
       chatHist.log[i].via = "w1" /\ chatHist.log[i].sub = "u1"
  /\ \E i \in DOMAIN messages :
       messages[i].type = "image" /\ messages[i].visitor_id = "u1"
  /\ Len(AcceptedOf(KeyUser)) = RATE_SHORT_MAX

(***************************************************************************)
(* Presence under init, commands, close and revoke (SpecConsistency).      *)
(***************************************************************************)
NextConsistency ==
  \/ NextPresence
  \/ HttpRevoke(Token(CredGate), "https://a.example")

SpecConsistency == InitInbound /\ [][NextConsistency]_vars

PresenceFrames(w) == {p \in DOMAIN sent[w] : sent[w][p].type = "presence"}

LastPresence(w) ==
  sent[w][CHOOSE p \in PresenceFrames(w) : \A q \in PresenceFrames(w) : q <= p]

\* C34: every open socket in the registry of some visitor has received a
\* presence frame, and the last one carries the stored presence state,
\* read as online while none is stored
C34_PresenceConsistent ==
  \A w \in OpenRegistered :
    /\ PresenceFrames(w) # {}
    /\ LastPresence(w).state = IF settings = "offline" THEN "offline" ELSE "online"

\* w2 was initialised while offline was stored and has one presence frame,
\* w1 saw the command arrive after its init, and the socket of u1 was then
\* closed by a revoke
C34_Witness ==
  /\ settings = "offline"
  /\ "w2" \in OpenRegistered
  /\ Cardinality(PresenceFrames("w2")) = 1
  /\ LastPresence("w2").state = "offline"
  /\ Cardinality(PresenceFrames("w1")) = 2
  /\ sockets["w1"].readyState # "OPEN"
  /\ gateHist.revokes = 1


(***************************************************************************)
(* Failed validations and the session store (SpecSession).                 *)
(***************************************************************************)
\* C35: a request whose credential verifyToken refuses leaves every row of
\* the session store as it was and adds none: a step that changes the store
\* is the step of no request whose credential is refused
C35_FailedValidationFrame ==
  [][sessions' # sessions =>
       \A tok \in SessTokens, o \in SessOrigins :
         (HttpHistory(tok, o) \/ HttpRevoke(tok, o))
           => verifyToken(sessions, tok, o, now).ok]_vars

\* the credential of another subject under the token id of u1 was refused a
\* second after the row of u1 was last seen, and the row still says so
C35_Witness ==
  /\ gateHist.lastVerify.claims = CredOther
  /\ gateHist.lastVerify.host = "a.example"
  /\ ~gateHist.lastVerify.ok
  /\ "j1" \in DOMAIN sessions
  /\ sessions["j1"].sub = "u1"
  /\ sessions["j1"].revoked_at = <<>>
  /\ sessions["j1"].last_seen < nowSeconds(gateHist.lastVerify.at)
  /\ ~(sessions["j1"].expires_at < nowSeconds(gateHist.lastVerify.at))


(***************************************************************************)
(* Refused contents and the rate budget (SpecReject).                      *)
(***************************************************************************)
\* C36: a socket message whose content is empty or too long, and an upload
\* without a body, leave every rate-limit entry as it was: no timestamp and
\* no strike is recorded for any key
C36_InvalidKeepsBudget ==
  [][/\ \A w \in Sockets, c \in ProtoContents :
          (WsMessage(w, c) /\ ~validContent(c)) => rateLimits' = rateLimits
     /\ HttpUpload(Token(CredGate), "https://a.example", "ip1", "u1", "empty")
          => rateLimits' = rateLimits]_vars


(***************************************************************************)
(* SpecUnswept: the rate limiter of one anonymous sender next to the table *)
(* no maintenance tick ever touched (rlHist.unswept). The behaviour starts *)
(* after seven checks of the sender at instant 0, five accepted and two    *)
(* refused, and runs over the end of the daily window.                     *)
(***************************************************************************)
RECURSIVE repeatCheck(_, _, _, _)
repeatCheck(st, keys, t, n) ==
  IF n = 0 THEN st
  ELSE LET r == checkRateLimitKeys(st.rl, keys, t)
       IN repeatCheck([rl |-> r.rl, hist |-> NoteCheck(st.hist, st.rl, keys, r, t)],
                      keys, t, n - 1)

UnsweptInstants ==
  {0, RATE_SHORT_WINDOW, RATE_DAILY_WINDOW, RATE_DAILY_WINDOW + RATE_SHORT_WINDOW}
UnsweptDeltas ==
  {RATE_SHORT_WINDOW, RATE_DAILY_WINDOW - RATE_SHORT_WINDOW, RATE_DAILY_WINDOW}

InitUnswept ==
  /\ LET st == repeatCheck([rl |-> <<>>, hist |-> InitRlHist],
                           rateLimitKeys(RateAnon, "ip1"), 0, RATE_SHORT_MAX + 2)
     IN now = 0 /\ rateLimits = st.rl /\ rlHist = [st.hist EXCEPT !.checks = 0]
  /\ sessions = <<>> /\ gateHist = InitGateHist
  /\ messages = <<>> /\ settings = ""
  /\ sockets = [w \in Sockets |-> NewSocket]
  /\ clients = <<>>
  /\ sent = [w \in Sockets |-> <<>>]
  /\ tasks = <<>> /\ tg = InitTg
  /\ inbound = <<>> /\ uploads = <<>>
  /\ typingThrottle = <<>> /\ typings = <<>>
  /\ hook = InitHook
  /\ widget = InitWidget
  /\ chatHist = InitChatHist
  /\ visitors = <<>> /\ botOn = FALSE

NextUnswept ==
  \/ CheckRateLimit(RateAnon, "ip1")
  \/ MaintenanceTick
  \/ \E d \in UnsweptDeltas : Tick(d, UnsweptInstants)

SpecUnswept == InitUnswept /\ [][NextUnswept]_vars

\* C37: every check returns what it returns on the table no maintenance
\* tick has touched
C37_SweepUnobservable == LastRate.ok = LastRate.okUnswept


(***************************************************************************)
(* SpecWidget: the page from its first token fetch on, over token          *)
(* refreshes and retries, socket events and reconnects. SpecWidgetChat:    *)
(* the page with its token, over socket events, reconnects, message        *)
(* frames and history loads.                                               *)
(***************************************************************************)
CloseCodes == {1006, 4001}

NextWidget ==
  \/ \E i \in 1..MaxFetches, ok \in BOOLEAN : FetchReturn(i, ok)
  \/ \E i \in TimerSlots : ReconnectFire(i)
  \/ \E i \in TimerSlots : TokenRetryFire(i)
  \/ \E i \in TimerSlots : TokenRefreshFire(i)
  \/ SockOpen
  \/ SockAuthOk
  \/ \E i \in 0..MaxOld, code \in CloseCodes : SockClose(i, code)

SpecWidget == InitSession /\ [][NextWidget]_vars

NextRefresh ==
  \/ \E i \in 1..MaxFetches : FetchReturn(i, TRUE)
  \/ \E i \in TimerSlots : TokenRefreshFire(i)
  \/ SockOpen
  \/ SockAuthOk
  \/ \E i \in 0..MaxOld : SockClose(i, 1006)
  \/ sendMessage

SpecRefresh == InitSession /\ [][NextRefresh]_vars

NextWidgetChat ==
  \/ \E i \in 1..MaxFetches, ok \in BOOLEAN : FetchReturn(i, ok)
  \/ \E i \in TimerSlots : ReconnectFire(i)
  \/ \E i \in TimerSlots : AgentTimerFire(i)
  \/ SockOpen
  \/ SockAuthOk
  \/ SockInitFrame
  \/ \E sender \in {"agent", "visitor"} : ServerMessage(sender)
  \/ SockMessage
  \/ \E i \in 0..MaxOld : SockClose(i, 1006)

SpecWidgetChat == InitSession /\ [][NextWidgetChat]_vars


(* Properties of the reconnect logic of the widget (SpecWidget). *)
ReconnectTimers ==
  {i \in DOMAIN widget.timers : widget.timers[i].kind = "reconnect"}

LiveSockets ==
  (IF wsLive(widget.ws) THEN {0} ELSE {})
    \cup {i \in DOMAIN widget.old : wsLive(widget.old[i])}

\* at most one reconnect timer is pending, no delay exceeds 30000 ms, and at
\* most one socket is CONNECTING or OPEN
ReconnectShape ==
  /\ Cardinality(ReconnectTimers) <= 1
  /\ widget.reconnectDelay >= Ms(1000) /\ widget.reconnectDelay <= Ms(30000)
  /\ \A i \in ReconnectTimers : widget.timers[i].delay <= Ms(30000)
  /\ Cardinality(LiveSockets) <= 1

\* the callback of the timer multiplies the delay by 1.5 up to 30000 ms, an
\* opening socket sets it to 1000 ms, a close with a code other than 4001
\* leaves a reconnect timer pending and a close with 4001 a token retry
ReconnectSteps ==
  /\ \A i \in TimerSlots :
       ReconnectFire(i) =>
         widget'.reconnectDelay = Min((widget.reconnectDelay * 3) \div 2, Ms(30000))
  /\ SockOpen => widget'.reconnectDelay = Ms(1000)
  /\ \A i \in 0..MaxOld :
       SockClose(i, 1006) =>
         \E j \in DOMAIN widget'.timers : widget'.timers[j].kind = "reconnect"
  /\ SockClose(0, 4001) =>
       /\ \E j \in DOMAIN widget'.timers : widget'.timers[j].kind = "retry"
       /\ Len(SelectSeq(widget'.timers, LAMBDA t : t.kind = "reconnect"))
            = Len(SelectSeq(widget.timers, LAMBDA t : t.kind = "reconnect"))

\* no socket is CONNECTING or OPEN while the token of the page is one that a
\* socket was closed with 4001 for
NoRefusedReconnect ==
  wsLive(widget.ws) => widget.jwtToken \notin widget.refused

\* C38: at most one reconnect timer is pending and at most one socket is
\* CONNECTING or OPEN, the delay grows by the factor 1.5 up to 30000 ms and
\* is 1000 ms after a socket opened, and after a close with code 4001 no
\* socket is made with the token that was refused
C38_ReconnectBackoff ==
  /\ [](ReconnectShape /\ NoRefusedReconnect)
  /\ [][ReconnectSteps]_vars


(* Properties of the auth flag of the widget (SpecRefresh). *)
\* the socket ws refers to is OPEN and has received auth_ok
CurrentAuthed ==
  widget.ws.made /\ widget.ws.readyState = 1 /\ widget.ws.authOk

\* C39: while the current socket is open and has received auth_ok, wsAuthed
\* is true, and a message sent then goes over the socket
C39_AuthFlag ==
  /\ [](CurrentAuthed => widget.wsAuthed)
  /\ [][(sendMessage /\ CurrentAuthed) => widget'.lastSend = "socket"]_vars


(* Properties of the message list of the widget (SpecWidgetChat). *)
NoRepeat(seq) == \A i, j \in DOMAIN seq : seq[i] = seq[j] => i = j

\* C40: no message id is twice in the message list of the page, and none is
\* twice among the messages it shows
C40_NoDuplicate == NoRepeat(widget.messages) /\ NoRepeat(widget.rendered)


====
